---- MODULE Spec2Model ----
(***************************************************************************)
(* League rating core of planet-wars-rts: the match log, the per-league    *)
(* ratings and cursor, the incremental update and the full rebuild of      *)
(* league/league_ratings.py; the scheduler of league/scheduler.py; the     *)
(* registration of agents; and the loader, the win-rate matrix, the chain  *)
(* and the power iteration of league/alpharank_league.py.                  *)
(*                                                                         *)
(* Reals are fixed-point integers: mu, sigma, beta, tau and t in units of  *)
(* 1/SCALE, variances in units of 1/SCALE^2, densities and probabilities   *)
(* in units of 1/PSCALE.                                                   *)
(***************************************************************************)
EXTENDS Integers, Sequences, FiniteSets, TLC

\* ------------------------------------------------------------------------
\* Fixed-point representation
\* ------------------------------------------------------------------------

\* One unit of a rating value is 1/SCALE (1e-3, the sigma floor of the code).
SCALE == 1000

\* One unit of a density or probability is 1/PSCALE.
PSCALE == 1000000

\* Spacing of the tabulated normal density and distribution, in units of t.
TAB_STEP == 250

\* SQL NULL / Python None in a nullable column.
NULL == 0

\* A rating row that does not exist (session.get returns None).
NoRating == [mu |-> 0, sigma |-> 0]

Max(a, b) == IF a >= b THEN a ELSE b

Min(a, b) == IF a <= b THEN a ELSE b

Abs(a) == IF a >= 0 THEN a ELSE -a

\* a / b rounded to the nearest unit (b > 0).
RDiv(a, b) == (2 * a + b) \div (2 * b)

RECURSIVE SqrtDescend(_, _)
\* Heron's iteration downwards from r >= sqrt(x): the largest r with r * r <= x.
SqrtDescend(x, r) ==
    LET next == (r + x \div r) \div 2
    IN  IF next >= r THEN r ELSE SqrtDescend(x, next)

\* math.sqrt on a value in units of 1/SCALE^2, result in units of 1/SCALE.
Sqrt(x) ==
    IF x <= 0 THEN 0
    ELSE IF x < 10000 THEN SqrtDescend(x, 100)
    ELSE IF x < 1000000 THEN SqrtDescend(x, 1000)
    ELSE IF x < 100000000 THEN SqrtDescend(x, 10000)
    ELSE SqrtDescend(x, 46341)

\* exp(-x*x/2)/sqrt(2 pi) at x = 0, 0.25, ..., 5.0, in units of 1/PSCALE.
PdfTable ==
    << 398942, 386668, 352065, 301137, 241971, 182649, 129518, 86277, 53991,
       31740, 17528, 9094, 4432, 2029, 873, 353, 134, 48, 16, 5, 1 >>

\* (1 + erf(x/sqrt 2))/2 at x = 0, 0.25, ..., 5.0, in units of 1/PSCALE.
CdfTable ==
    << 500000, 598706, 691462, 773373, 841345, 894350, 933193, 959941, 977250,
       987776, 993790, 997020, 998650, 999423, 999767, 999912, 999968, 999989,
       999997, 999999, 1000000 >>

\* Linear interpolation in a table at a >= 0; the last entry beyond its end.
Interp(tab, a) ==
    LET i == a \div TAB_STEP
        f == a % TAB_STEP
    IN  IF i + 1 >= Len(tab) THEN tab[Len(tab)]
        ELSE tab[i + 1] + ((tab[i + 2] - tab[i + 1]) * f) \div TAB_STEP

_norm_pdf(x) ==
    IF Abs(x) >= TAB_STEP * Len(PdfTable) THEN 0 ELSE Interp(PdfTable, Abs(x))

_norm_cdf(x) ==
    IF x >= 0 THEN Interp(CdfTable, x) ELSE PSCALE - Interp(CdfTable, -x)

\* The 1e-12 guard of the code: the smallest positive probability.
EPS == 1

_v_exceeds(t) ==
    LET cdf == Max(_norm_cdf(t), EPS)
    IN  RDiv(_norm_pdf(t) * SCALE, cdf)

_w_exceeds(t) ==
    LET v == _v_exceeds(t)
    IN  RDiv(v * (v + t), SCALE)

_v_exceeds_neg(t) ==
    LET cdf == Min(PSCALE - _norm_cdf(t), PSCALE - EPS)
    IN  RDiv(_norm_pdf(t) * SCALE, Max(cdf, EPS))

_w_exceeds_neg(t) ==
    LET v == _v_exceeds_neg(t)
    IN  RDiv(v * (v - t), SCALE)

\* Floor of a variance before the square root (1e-6) and of sigma (1e-3).
VAR_FLOOR == 1

SIGMA_FLOOR == 1

\* TS_DEFAULTS: mu0 = 25, sigma0 = 25/3, beta = 25/6, tau = (25/3)/100.
TS_DEFAULTS ==
    [mu0 |-> 25000, sigma0 |-> 8333, beta |-> 4167, tau |-> 83,
     last_processed_match_id |-> 0]

\* _apply_trueskill_win without the floors of the variance and of sigma.
_apply_trueskill_win_NoFloor(r_winner, r_loser, beta, tau) ==
    LET mu1 == r_winner.mu
        mu2 == r_loser.mu
        s1  == Sqrt(r_winner.sigma * r_winner.sigma + tau * tau)
        s2  == Sqrt(r_loser.sigma * r_loser.sigma + tau * tau)
        c2  == 2 * beta * beta + s1 * s1 + s2 * s2
        c   == Sqrt(c2)
        t   == RDiv((mu1 - mu2) * SCALE, c)
        v   == _v_exceeds(t)
        w   == _w_exceeds(t)
        mu1p == mu1 + RDiv(RDiv(s1 * s1, c) * v, SCALE)
        s1p2 == RDiv(s1 * s1, SCALE)
                  * (SCALE - RDiv(RDiv(s1 * s1, RDiv(c2, SCALE)) * w, SCALE))
        vL  == _v_exceeds_neg(t)
        wL  == _w_exceeds_neg(t)
        mu2p == mu2 - RDiv(RDiv(s2 * s2, c) * vL, SCALE)
        s2p2 == RDiv(s2 * s2, SCALE)
                  * (SCALE - RDiv(RDiv(s2 * s2, RDiv(c2, SCALE)) * wL, SCALE))
    IN  << [mu |-> mu1p, sigma |-> Sqrt(s1p2)],
           [mu |-> mu2p, sigma |-> Sqrt(s2p2)] >>

\* _apply_trueskill_win on the values of the two rows: <<winner', loser'>>.
_apply_trueskill_win(r_winner, r_loser, beta, tau) ==
    LET mu1 == r_winner.mu
        mu2 == r_loser.mu
        s1  == Sqrt(r_winner.sigma * r_winner.sigma + tau * tau)
        s2  == Sqrt(r_loser.sigma * r_loser.sigma + tau * tau)
        c2  == 2 * beta * beta + s1 * s1 + s2 * s2
        c   == Sqrt(c2)
        t   == RDiv((mu1 - mu2) * SCALE, c)
        v   == _v_exceeds(t)
        w   == _w_exceeds(t)
        mu1p == mu1 + RDiv(RDiv(s1 * s1, c) * v, SCALE)
        s1p2 == RDiv(s1 * s1, SCALE)
                  * (SCALE - RDiv(RDiv(s1 * s1, RDiv(c2, SCALE)) * w, SCALE))
        vL  == _v_exceeds_neg(t)
        wL  == _w_exceeds_neg(t)
        mu2p == mu2 - RDiv(RDiv(s2 * s2, c) * vL, SCALE)
        s2p2 == RDiv(s2 * s2, SCALE)
                  * (SCALE - RDiv(RDiv(s2 * s2, RDiv(c2, SCALE)) * wL, SCALE))
    IN  << [mu |-> mu1p, sigma |-> Max(Sqrt(Max(s1p2, VAR_FLOOR)), SIGMA_FLOOR)],
           [mu |-> mu2p, sigma |-> Max(Sqrt(Max(s2p2, VAR_FLOOR)), SIGMA_FLOOR)] >>

\* ------------------------------------------------------------------------
\* Bounds and input sets
\* ------------------------------------------------------------------------

\* Longest match log explored.
MaxMatches == 3

\* Longest match log explored together with rebuild calls.
MaxSeqMatches == 2

\* Most rebuild calls with reset_ratings = False explored (each one moves the
\* ratings further, so their number has to be capped).
MaxRecompute == 1

Leagues == {1}

AgentIds == {1, 2, 3}

Procs == {1, 2}

Orders == {"time", "id"}

\* A Match row before its match_id is assigned.
NewMatch(p1, p2, w, st, fin) ==
    [match_id |-> 0, league_id |-> 1, player1_id |-> p1, player2_id |-> p2,
     winner_id |-> w, started_at |-> st, finished_at |-> fin]

\* Rows for the update-only specification: every pairing of two agents,
\* self-play included, with a null winner or one of the two agents as winner.
UpdateInputs ==
    { NewMatch(p1, p2, w, 1, 1) : p1 \in {1, 2}, p2 \in {1, 2}, w \in {NULL, 1, 2} }

\* Rows for the full sequential specification: one pairing; a decisive row
\* has either player as winner, a null or non-null start, and start and
\* finish in the same or the opposite order; one row has a null winner.
SeqInputs ==
    { NewMatch(1, 2, w, tm[1], tm[2]) :
        w \in {1, 2}, tm \in {<<NULL, 2>>, <<1, 2>>, <<2, 1>>} }
    \cup { NewMatch(1, 2, NULL, 1, 1) }

\* Rows for the overlapping-update specification: three agents, no self-play.
ConcInputs ==
    { NewMatch(pr[1], pr[2], pr[1], 1, 1) : pr \in {<<1, 2>>, <<1, 3>>, <<2, 3>>} }

\* Rows for the failure specification.
FailInputs ==
    { NewMatch(1, 2, w, 1, 1) : w \in {1, 2} }

\* Longest match log explored with rows whose winner is a third agent.
MaxCreditMatches == 2

\* Rows for the credit specification: agents 1 and 2, or 2 and 3, play; the
\* recorded winner is any of the three agents, so one row of each pairing
\* names a winner that did not play.
CreditInputs ==
    { NewMatch(pr[1], pr[2], w, 1, 1) : pr \in {<<1, 2>>, <<2, 3>>}, w \in {1, 2, 3} }

\* Longest match log explored with two leagues.
MaxIsoMatches == 2

\* The leagues of the two-league specification.
AllLeagues == {1, 2}

\* Rows for the two-league specification: agents 1 and 2 play. In league 1
\* agent 1 wins a match started on day 2; in league 2 agent 2 wins a match
\* started on day 1, so a league 2 row appended after a league 1 row comes
\* first in time order and second in id order.
IsoInputs ==
    { [NewMatch(1, 2, r[2], r[3], 2) EXCEPT !.league_id = r[1]] :
        r \in {<<1, 1, 2>>, <<2, 2, 1>>} }

\* Longest match log explored together with the scheduler.
MaxSchedMatches == 2

\* Clock values at a call of choose_next_pair, in days: the day of the
\* matches, one week later and two weeks later.
Clock == {1, 8, 15}

\* Rows for the scheduler specification: two of three agents, one of them
\* the winner, finished on day 1; one row has no finish timestamp.
SchedInputs ==
    { NewMatch(r[1], r[2], r[3], 1, 1) :
        r \in {<<1, 2, 1>>, <<1, 2, 2>>, <<1, 3, 1>>, <<2, 3, 3>>} }
    \cup { NewMatch(1, 2, 1, 1, NULL) }

\* Longest match log explored in a league of ten rated agents.
MaxTopKMatches == 2

\* The agents of the league of ten.
TopKAgents == 1..10

\* Stored ratings of the league of ten: mu rising with the agent id, agent
\* 10 the least certain and agent 1 the next; and the same with agents 1
\* and 2 at equal mu and sigma.
TopKRatings ==
    { [a \in TopKAgents |->
          [mu |-> 20000 + 1000 * a,
           sigma |-> IF a = 10 THEN 8333 ELSE IF a = 1 THEN 8000 ELSE 4000]],
      [a \in TopKAgents |->
          [mu |-> IF a <= 2 THEN 21000 ELSE 20000 + 1000 * a,
           sigma |-> IF a = 10 THEN 8333 ELSE IF a <= 2 THEN 8000 ELSE 4000]] }

\* Rows for the league of ten: agent 10 against agent 1 or agent 9, in
\* either player order.
TopKInputs ==
    { NewMatch(r[1], r[2], r[3], 1, 1) :
        r \in {<<10, 1, 10>>, <<1, 10, 1>>, <<9, 10, 9>>} }

\* Longest match log explored from stored ratings of any value.
MaxWinMatches == 2

\* Stored ratings for the win-update specification: equal, close and far
\* apart means (25, 30, 1025), a narrow and the default deviation.
WinRatings ==
    { [mu |-> m, sigma |-> sg] : m \in {25000, 30000, 1025000}, sg \in {1000, 8333} }

\* Rows for the win-update specification: agents 1 and 2, either the winner.
WinInputs ==
    { NewMatch(1, 2, w, 1, 1) : w \in {1, 2} }

\* Longest match log explored from stored ratings at the sigma floor.
MaxFloorMatches == 2

\* Stored ratings for the sigma-floor specification: sigma at the floor of
\* 1e-3 or at the default.
FloorRatings ==
    { [mu |-> m, sigma |-> sg] : m \in {25000, 30000}, sg \in {SIGMA_FLOOR, 8333} }

\* Rows for the sigma-floor specification: agent 1 against agent 2, who has
\* a stored rating, or against agent 3, who has none.
FloorInputs ==
    { NewMatch(r[1], r[2], r[3], 1, 1) :
        r \in {<<1, 2, 1>>, <<1, 2, 2>>, <<1, 3, 1>>} }

\* Longest match log explored together with the ranking.
MaxRankMatches == 2

\* Rows for the ranking specification: agents 1 and 2 in either player
\* order with either winner, agent 3 against each of them, a self-play row
\* and a row with a null winner.
RankInputs ==
    { NewMatch(r[1], r[2], r[3], 1, 1) :
        r \in {<<1, 2, 1>>, <<1, 2, 2>>, <<2, 1, 1>>, <<2, 3, 2>>, <<1, 3, 3>>,
               <<1, 1, 1>>, <<1, 2, NULL>>} }

\* The (--alpha, --mutation) of the ranking runs over the match log.
RankArgs == { <<1, 100>>, <<4, 1>> }

\* Selection intensities (--alpha) explored.
Alphas == {0, 1, 4}

\* Mutation weights (--mutation) explored, in units of 1/WSCALE: 0, 0.001, 0.1.
Mutations == {0, 1, 100}

\* Win-rate matrices for the chain specification, in units of 1/PROB: all
\* 0.5 for two, three and four agents; one agent dominating another; three
\* agents in a 0.9 cycle; three agents in a 0.9 order; and a matrix as the
\* loader builds it, with 0, 0.5 and 1.
AlphaMatrices ==
    { << <<5000, 5000>>, <<5000, 5000>> >>,
      << <<5000, 5000, 5000>>, <<5000, 5000, 5000>>, <<5000, 5000, 5000>> >>,
      << <<5000, 5000, 5000, 5000>>, <<5000, 5000, 5000, 5000>>,
         <<5000, 5000, 5000, 5000>>, <<5000, 5000, 5000, 5000>> >>,
      << <<5000, 9000>>, <<1000, 5000>> >>,
      << <<5000, 9000, 1000>>, <<1000, 5000, 9000>>, <<9000, 1000, 5000>> >>,
      << <<5000, 9000, 9000>>, <<1000, 5000, 9000>>, <<1000, 1000, 5000>> >>,
      << <<5000, 10000, 5000>>, <<10000, 5000, 10000>>, <<5000, 0, 5000>> >> }

\* ------------------------------------------------------------------------
\* Queries and the replay loop
\* ------------------------------------------------------------------------

\* RowBefore with finished_at for started_at in the "time" order.
RowBefore_ByFinish(a, b, order) ==
    IF order = "time" /\ a.finished_at # b.finished_at
    THEN IF a.finished_at = NULL THEN TRUE
         ELSE IF b.finished_at = NULL THEN FALSE
         ELSE a.finished_at < b.finished_at
    ELSE a.match_id < b.match_id

\* ORDER BY: "id" is match_id ASC; "time" is started_at ASC NULLS FIRST, then
\* match_id ASC.
RowBefore(a, b, order) ==
    IF order = "time" /\ a.started_at # b.started_at
    THEN IF a.started_at = NULL THEN TRUE
         ELSE IF b.started_at = NULL THEN FALSE
         ELSE a.started_at < b.started_at
    ELSE a.match_id < b.match_id

RECURSIVE InsertRow(_, _, _)
InsertRow(m, rows, order) ==
    IF rows = << >> THEN << m >>
    ELSE IF RowBefore(m, Head(rows), order) THEN << m >> \o rows
    ELSE << Head(rows) >> \o InsertRow(m, Tail(rows), order)

RECURSIVE OrderBy(_, _)
OrderBy(rows, order) ==
    IF rows = << >> THEN << >>
    ELSE InsertRow(Head(rows), OrderBy(Tail(rows), order), order)

\* LeagueRows without its filter: the rows of every league.
LeagueRows_AllLeagues(ms, league_id) == SelectSeq(ms, LAMBDA m : TRUE)

\* filter(Match.league_id == league_id)
LeagueRows(ms, league_id) == SelectSeq(ms, LAMBDA m : m.league_id = league_id)

\* UpdateQuery with the cursor row itself included (>= for >).
UpdateQuery_Inclusive(ms, league_id, last_id) ==
    OrderBy(SelectSeq(LeagueRows(ms, league_id), LAMBDA m : m.match_id >= last_id),
            "id")

\* The query of the incremental update: rows of the league above the cursor.
UpdateQuery(ms, league_id, last_id) ==
    OrderBy(SelectSeq(LeagueRows(ms, league_id), LAMBDA m : m.match_id > last_id),
            "id")

\* The query of the rebuild: every row of the league in the chosen order.
RebuildQuery(ms, league_id, order) == OrderBy(LeagueRows(ms, league_id), order)

\* Decisive without its filter: every row is kept.
Decisive_KeepAll(rows) == SelectSeq(rows, LAMBDA m : TRUE)

\* [m for m in q if m.winner_id is not None]
Decisive(rows) == SelectSeq(rows, LAMBDA m : m.winner_id # NULL)

EmptyRatings == [a \in AgentIds |-> NoRating]

\* _get_or_create_rating: the stored row, or a new one at (mu0, sigma0).
_get_or_create_rating(R, agent_id, mu0, sigma0) ==
    IF R[agent_id] = NoRating THEN [mu |-> mu0, sigma |-> sigma0] ELSE R[agent_id]

\* One pass of the loop body: the rows of both players are fetched, the win
\* is applied with player1 as winner when winner_id == player1_id and with
\* player2 as winner otherwise. The winner's row is written first and the
\* loser's second, so for one shared row the loser's values are what stays.
ApplyMatch(R, m, s) ==
    LET r1 == _get_or_create_rating(R, m.player1_id, s.mu0, s.sigma0)
        r2 == _get_or_create_rating(R, m.player2_id, s.mu0, s.sigma0)
        p1wins == m.winner_id = m.player1_id
        res == IF p1wins THEN _apply_trueskill_win(r1, r2, s.beta, s.tau)
                         ELSE _apply_trueskill_win(r2, r1, s.beta, s.tau)
        wa == IF p1wins THEN m.player1_id ELSE m.player2_id
        la == IF p1wins THEN m.player2_id ELSE m.player1_id
    IN  [R EXCEPT ![wa] = res[1], ![la] = res[2]]

RECURSIVE ReplayRows(_, _, _)
\* for m in rows: ApplyMatch
ReplayRows(R, rows, s) ==
    IF rows = << >> THEN R
    ELSE ReplayRows(ApplyMatch(R, Head(rows), s), Tail(rows), s)

IdsOf(rows) == [i \in 1..Len(rows) |-> rows[i].match_id]

PlayersOf(rows) ==
    { rows[i].player1_id : i \in 1..Len(rows) } \cup
    { rows[i].player2_id : i \in 1..Len(rows) }

\* UpdateOutcome with the cursor written back as it was read.
UpdateOutcome_StaleCursor(ms, R, s, league_id) ==
    LET to_apply == Decisive(UpdateQuery(ms, league_id, s.last_processed_match_id))
    IN  IF to_apply = << >>
        THEN [ret |-> 0, ratings |-> R, settings |-> s, applied |-> << >>,
              touched |-> {}]
        ELSE [ret |-> Len(to_apply),
              ratings |-> ReplayRows(R, to_apply, s),
              settings |-> s,
              applied |-> IdsOf(to_apply),
              touched |-> PlayersOf(to_apply)]

\* process_new_matches_and_update_ratings on a view (ms, R, s) of the store:
\* the return value, the ratings and settings it commits, the ids it applied
\* in order, and the rows it touched.
UpdateOutcome(ms, R, s, league_id) ==
    LET to_apply == Decisive(UpdateQuery(ms, league_id, s.last_processed_match_id))
    IN  IF to_apply = << >>
        THEN [ret |-> 0, ratings |-> R, settings |-> s, applied |-> << >>,
              touched |-> {}]
        ELSE [ret |-> Len(to_apply),
              ratings |-> ReplayRows(R, to_apply, s),
              settings |-> [s EXCEPT !.last_processed_match_id =
                                        to_apply[Len(to_apply)].match_id],
              applied |-> IdsOf(to_apply),
              touched |-> PlayersOf(to_apply)]

\* The first commit of rebuild_ratings_from_matches: the wipe of the league's
\* ratings and cursor when reset_ratings is set.
ResetOutcome(R, s, reset_ratings) ==
    IF reset_ratings
    THEN [ratings |-> EmptyRatings, settings |-> [s EXCEPT !.last_processed_match_id = 0]]
    ELSE [ratings |-> R, settings |-> s]

\* RebuildOutcome with reset_ratings ignored: the stored rows are kept.
RebuildOutcome_NoWipe(ms, R, s, league_id, reset_ratings, order) ==
    LET rows == Decisive(RebuildQuery(ms, league_id, order))
    IN  IF rows = << >>
        THEN [ret |-> 0, ratings |-> R,
              settings |-> [s EXCEPT !.last_processed_match_id = 0],
              applied |-> << >>, touched |-> {}]
        ELSE [ret |-> Len(rows),
              ratings |-> ReplayRows(R, rows, s),
              settings |-> [s EXCEPT !.last_processed_match_id =
                                        rows[Len(rows)].match_id],
              applied |-> IdsOf(rows),
              touched |-> PlayersOf(rows)]

\* rebuild_ratings_from_matches on a view (ms, R, s) of the store.
RebuildOutcome(ms, R, s, league_id, reset_ratings, order) ==
    LET base == ResetOutcome(R, s, reset_ratings)
        rows == Decisive(RebuildQuery(ms, league_id, order))
    IN  IF rows = << >>
        THEN [ret |-> 0, ratings |-> base.ratings,
              settings |-> [base.settings EXCEPT !.last_processed_match_id = 0],
              applied |-> << >>, touched |-> {}]
        ELSE [ret |-> Len(rows),
              ratings |-> ReplayRows(base.ratings, rows, s),
              settings |-> [base.settings EXCEPT !.last_processed_match_id =
                                                    rows[Len(rows)].match_id],
              applied |-> IdsOf(rows),
              touched |-> PlayersOf(rows)]

\* load_league_data of the ranking: rows with a null player or winner and
\* self-play rows are skipped; both players of any other row join agent_ids;
\* counts[(i, j)].wins_ij counts the rows between i and j, in either player
\* order, that i won (a key that was never incremented reads as 0).
load_league_data(ms, league_id) ==
    LET rows == LeagueRows(ms, league_id)
        used == { k \in 1..Len(rows) :
                    ~ ( rows[k].player1_id = NULL \/ rows[k].player2_id = NULL
                        \/ rows[k].winner_id = NULL
                        \/ rows[k].player1_id = rows[k].player2_id ) }
    IN  [agent_ids |-> { rows[k].player1_id : k \in used } \cup
                       { rows[k].player2_id : k \in used },
         counts |-> [pr \in AgentIds \X AgentIds |->
                        Cardinality({ k \in used :
                            /\ rows[k].winner_id = pr[1]
                            /\ \/ << rows[k].player1_id, rows[k].player2_id >> = pr
                               \/ << rows[k].player2_id, rows[k].player1_id >> = pr })]]

\* ------------------------------------------------------------------------
\* The scheduler (league/scheduler.py)
\* ------------------------------------------------------------------------

\* The weights of scheduler.py, in tenths.
W_SIGMA == 6

W_UCB == 3

W_STALE == 1

W_Q == 7

W_SUMS == 3

W_REPEAT == 2

\* The opponent search of an exploit draw keeps the TOP_K highest mu.
TOP_K == 8

\* Timestamps count days; the staleness window is one week.
WEEK == 7

\* The cap of the staleness of an agent that has played (1.5).
STALE_CAP == 1500

\* The staleness of an agent that has never played (1.0).
STALE_NEVER == 1000

\* math.log(n) for n = 1..8, in units of 1/SCALE.
LnTable == << 0, 693, 1099, 1386, 1609, 1792, 1946, 2079 >>

\* _match_quality: exp(-dmu^2 / (2 c2)), computed as pdf(dmu/c) / pdf(0).
_match_quality(mu1, s1, mu2, s2, beta) ==
    LET c2 == 2 * beta * beta + s1 * s1 + s2 * s2
    IN  IF c2 <= 0 THEN 0
        ELSE RDiv(_norm_pdf(RDiv((mu1 - mu2) * SCALE, Sqrt(c2))) * SCALE, PdfTable[1])

\* _normalize_days at the clock value now: 1.0 for None, else the weeks
\* since dt capped at 1.5.
_normalize_days(dt, now) ==
    IF dt = NULL THEN STALE_NEVER
    ELSE Min(RDiv((now - dt) * SCALE, WEEK), STALE_CAP)

\* The agents with a Rating row in the view R of a league.
Rated(R) == { a \in DOMAIN R : R[a] # NoRating }

\* Decisive rows of the league with a as player1 plus those with a as player2.
PlayedCount(rows, a) ==
    Cardinality({ k \in 1..Len(rows) : rows[k].player1_id = a })
      + Cardinality({ k \in 1..Len(rows) : rows[k].player2_id = a })

\* The greatest non-null finished_at of the decisive rows a played, or None.
LastPlayed(rows, a) ==
    LET ts == { rows[k].finished_at : k \in { n \in 1..Len(rows) :
                   /\ a \in { rows[n].player1_id, rows[n].player2_id }
                   /\ rows[n].finished_at # NULL } }
    IN  IF ts = {} THEN NULL ELSE CHOOSE t \in ts : \A u \in ts : u <= t

\* load_stats: one AgentStat per Rating row of the league, the number T of
\* decisive rows and the league's beta; no row at all gives ({}, 0, beta).
load_stats(R, ms, s, league_id) ==
    LET rows == Decisive(LeagueRows(ms, league_id))
    IN  [stats |-> [a \in Rated(R) |->
                      [agent_id |-> a, mu |-> R[a].mu, sigma |-> R[a].sigma,
                       played |-> PlayedCount(rows, a),
                       last_played |-> LastPlayed(rows, a)]],
         T |-> IF Rated(R) = {} THEN 0 ELSE Len(rows),
         beta |-> s.beta]

\* load_pair_counts: the decisive rows of the league between a and b, in
\* either player order.
load_pair_counts(ms, league_id, a, b) ==
    LET rows == Decisive(LeagueRows(ms, league_id))
    IN  Cardinality({ k \in 1..Len(rows) :
            \/ << rows[k].player1_id, rows[k].player2_id >> = << Min(a, b), Max(a, b) >>
            \/ << rows[k].player2_id, rows[k].player1_id >> = << Min(a, b), Max(a, b) >> })

\* priority of choose_next_pair, in units of 1/(10 SCALE).
priority(st, T, now) ==
    LET ucb == Sqrt(RDiv(LnTable[T + 1] * SCALE, st.played + 1))
    IN  W_SIGMA * st.sigma + W_UCB * ucb + W_STALE * _normalize_days(st.last_played, now)

\* pair_score of choose_next_pair, in units of 1/(10 SCALE).
pair_score(i, j, beta, repeats) ==
    W_Q * _match_quality(i.mu, i.sigma, j.mu, j.sigma, beta)
      + W_SUMS * (i.sigma + j.sigma) - W_REPEAT * repeats * SCALE

\* TopK without the slice: every candidate is kept.
TopK_NoSlice(stats, cands) == { cands }

\* sorted(..., key=lambda s: s.mu, reverse=True)[:min(TOP_K, len)]: every
\* set the slice can be, the order among equal mu being that of the rows.
TopK(stats, cands) ==
    IF Cardinality(cands) <= TOP_K THEN { cands }
    ELSE { S \in SUBSET cands :
             /\ Cardinality(S) = TOP_K
             /\ \A a \in S, b \in cands \ S : stats[a].mu >= stats[b].mu }

\* NextPairs with the focal agent left among the candidate opponents.
NextPairs_FocalAsCandidate(R, ms, s, league_id, now, exploit) ==
    LET ld == load_stats(R, ms, s, league_id)
        stats == ld.stats
        ids == DOMAIN stats
        focal == { i \in ids : \A k \in ids :
                     priority(stats[k], ld.T, now) <= priority(stats[i], ld.T, now) }
        score(i, j) == pair_score(stats[i], stats[j], ld.beta,
                                  load_pair_counts(ms, league_id, i, j))
    IN  IF Cardinality(ids) < 2 THEN { << >> }
        ELSE UNION { { << i, j >> : j \in { c \in ids :
                         \A k \in ids : score(i, k) <= score(i, c) } } :
                     i \in focal }

\* choose_next_pair with the clock at now and the draw random.random() <
\* P_EXPLOIT given by exploit: the set of values it can return, None or a
\* pair; among equal priorities and equal scores the first row of an
\* unordered query wins, which can be any of them.
NextPairs(R, ms, s, league_id, now, exploit) ==
    LET ld == load_stats(R, ms, s, league_id)
        stats == ld.stats
        ids == DOMAIN stats
        focal == { i \in ids : \A k \in ids :
                     priority(stats[k], ld.T, now) <= priority(stats[i], ld.T, now) }
        score(i, j) == pair_score(stats[i], stats[j], ld.beta,
                                  load_pair_counts(ms, league_id, i, j))
    IN  IF Cardinality(ids) < 2 THEN { << >> }
        ELSE UNION { UNION { { << i, j >> : j \in { c \in cs :
                               \A k \in cs : score(i, k) <= score(i, c) } } :
                             cs \in IF exploit THEN TopK(stats, ids \ {i})
                                    ELSE { ids \ {i} } } :
                     i \in focal }

\* ------------------------------------------------------------------------
\* The ranking (league/alpharank_league.py)
\* ------------------------------------------------------------------------

\* One unit of a win rate, a transition probability or a mass is 1/PROB.
PROB == 10000

\* One unit of a transition weight is 1/WSCALE.
WSCALE == 1000

\* The cap of safe_exp on its exponent (50.0).
EXP_CAP == 50

\* The tolerance of the convergence test (1e-12): one unit of mass.
TOL == 1

\* Power-iteration steps at most (max_iter of stationary_distribution).
MAX_ITER == 24

RECURSIVE SumTo(_, _)
\* f[1] + ... + f[k]
SumTo(f, k) == IF k = 0 THEN 0 ELSE f[k] + SumTo(f, k - 1)

\* The list of the values of f on 1..n, evaluated once.
AsList(f) == f \o << >>

\* sum(f) of a list.
SumSeq(f) == SumTo(f, Len(f))

\* e^0 .. e^5, in units of 1/WSCALE.
EPow == << 1000, 2718, 7389, 20086, 54598, 148413 >>

\* math.exp(x) for 0 <= x < 6, x in units of 1/PROB, the result in units of
\* 1/WSCALE: e^floor(x) times the series of the fractional part.
Exp(x) ==
    LET k  == x \div PROB
        f  == x % PROB
        t2 == (f * f) \div (2 * PROB)
        t3 == (t2 * f) \div (3 * PROB)
        t4 == (t3 * f) \div (4 * PROB)
        t5 == (t4 * f) \div (5 * PROB)
        t6 == (t5 * f) \div (6 * PROB)
    IN  RDiv(EPow[k + 1] * RDiv(PROB + f + t2 + t3 + t4 + t5 + t6, PROB \div WSCALE),
             WSCALE)

\* safe_exp: math.exp(min(50.0, x)).
safe_exp(x) == Exp(Min(EXP_CAP * PROB, x))

\* PairCounts.games
games(c) == c.wins_ij + c.wins_ji

\* PairCounts.p_ij: wins_ij / games, or 0.5 without games.
p_ij(c) == IF games(c) > 0 THEN RDiv(c.wins_ij * PROB, games(c)) ELSE PROB \div 2

RECURSIVE SortedIds(_)
\* sorted(agent_ids)
SortedIds(S) ==
    IF S = {} THEN << >>
    ELSE LET a == CHOOSE x \in S : \A y \in S : x <= y
         IN  << a >> \o SortedIds(S \ {a})

\* The PairCounts the loader holds under the key (i_id, j_id), if any: the
\* key exists once wins_ij has been incremented; wins_ji is never written.
CountsItem(counts, i_id, j_id) ==
    [present |-> counts[<< i_id, j_id >>] > 0,
     c |-> [wins_ij |-> counts[<< i_id, j_id >>], wins_ji |-> 0]]

\* build_winrate_matrix: p[i][j] over the indices of sorted(agent_ids); an
\* entry with a key takes p_ij() of the key; an entry without games whose
\* opposite entry has games takes 1 - p[j][i]; every other entry is 0.5.
build_winrate_matrix(ids, counts) ==
    LET n == Len(ids)
        item(i, j) == CountsItem(counts, ids[i], ids[j])
        g(i, j) == IF item(i, j).present THEN games(item(i, j).c) ELSE 0
        first(i, j) == IF item(i, j).present THEN p_ij(item(i, j).c) ELSE PROB \div 2
    IN  AsList([i \in 1..n |-> AsList([j \in 1..n |->
            IF i = j THEN PROB \div 2
            ELSE IF g(i, j) = 0 /\ g(j, i) > 0 THEN PROB - first(j, i)
            ELSE first(i, j)])])

\* g of build_winrate_matrix: g[i][j] is the games of the key (i_id, j_id),
\* or those of the opposite key if this one has none.
build_winrate_games(ids, counts) ==
    LET n == Len(ids)
        item(i, j) == CountsItem(counts, ids[i], ids[j])
        g(i, j) == IF item(i, j).present THEN games(item(i, j).c) ELSE 0
    IN  AsList([i \in 1..n |-> AsList([j \in 1..n |->
            IF i = j THEN 0
            ELSE IF g(i, j) = 0 /\ g(j, i) > 0 THEN g(j, i)
            ELSE g(i, j)])])

\* w of build_winrate_matrix: w[i][j] is wins_ij of the key (i_id, j_id),
\* or round(p[i][j] * g[i][j]) where the entry was taken from the opposite
\* key.
build_winrate_wins(ids, counts) ==
    LET n == Len(ids)
        item(i, j) == CountsItem(counts, ids[i], ids[j])
        g(i, j) == IF item(i, j).present THEN games(item(i, j).c) ELSE 0
        first(i, j) == IF item(i, j).present THEN p_ij(item(i, j).c) ELSE PROB \div 2
    IN  AsList([i \in 1..n |-> AsList([j \in 1..n |->
            IF i = j THEN 0
            ELSE IF g(i, j) = 0 /\ g(j, i) > 0
                 THEN RDiv((PROB - first(j, i)) * g(j, i), PROB)
            ELSE IF item(i, j).present THEN item(i, j).c.wins_ij
            ELSE 0])])

\* total_games, total_wins and weighted_wr of main: the sums of the rows of
\* g and w off the diagonal, and their ratio (0.0 without games).
Totals(g, w) ==
    LET n == Len(g)
        total_games == AsList([i \in 1..n |-> SumSeq(g[i])])
        total_wins == AsList([i \in 1..n |-> SumSeq(w[i])])
    IN  [total_games |-> total_games,
         total_wins |-> total_wins,
         weighted_wr |-> AsList([i \in 1..n |->
                            IF total_games[i] > 0
                            THEN RDiv(total_wins[i] * PROB, total_games[i]) ELSE 0])]

\* profiles of build_profile_graph: the pairs (i, j), i # j, row by row.
Profiles(n) ==
    SelectSeq([k \in 1..(n * n) |-> << ((k - 1) \div n) + 1, ((k - 1) % n) + 1 >>],
              LAMBDA pr : pr[1] # pr[2])

\* weight of a deviation with payoff difference delta.
DeviationWeight(delta, alpha, mutation) ==
    IF delta <= 0 THEN mutation ELSE safe_exp(alpha * delta)

\* build_profile_graph with the row deviations i -> k kept only for k > i.
build_profile_graph_RowUpOnly(p, alpha, mutation) ==
    LET n == Len(p)
        profiles == Profiles(n)
        m == Len(profiles)
        base(a, b) ==
            LET i == profiles[a][1]
                j == profiles[a][2]
                x == profiles[b][1]
                y == profiles[b][2]
            IN  IF b = a THEN WSCALE
                ELSE IF y = j /\ x > i
                     THEN Max(0, DeviationWeight(p[x][j] - p[i][j], alpha, mutation))
                ELSE IF x = i /\ y \notin {i, j}
                     THEN Max(0, DeviationWeight(p[y][i] - p[j][i], alpha, mutation))
                ELSE 0
        total(a) == SumSeq([b \in 1..m |-> base(a, b)])
    IN  AsList([a \in 1..m |-> AsList([b \in 1..m |-> RDiv(base(a, b) * PROB, total(a))])])

\* build_profile_graph with the self-loop left at its weight 1.0 instead
\* of being divided by the total of the row.
build_profile_graph_SelfLoopRaw(p, alpha, mutation) ==
    LET n == Len(p)
        profiles == Profiles(n)
        m == Len(profiles)
        base(a, b) ==
            LET i == profiles[a][1]
                j == profiles[a][2]
                x == profiles[b][1]
                y == profiles[b][2]
            IN  IF b = a THEN WSCALE
                ELSE IF y = j /\ x \notin {i, j}
                     THEN Max(0, DeviationWeight(p[x][j] - p[i][j], alpha, mutation))
                ELSE IF x = i /\ y \notin {i, j}
                     THEN Max(0, DeviationWeight(p[y][i] - p[j][i], alpha, mutation))
                ELSE 0
        total(a) == SumSeq([b \in 1..m |-> base(a, b)])
    IN  AsList([a \in 1..m |-> AsList([b \in 1..m |->
            IF b = a THEN PROB ELSE RDiv(base(a, b) * PROB, total(a))])])

\* build_profile_graph: trans[a][b], the probability of the move from
\* profile a to profile b (0 where the row has no entry): weight 1.0 for
\* staying, the deviation weight for a change of the row agent or of the
\* column agent to a third agent if that weight is positive, each divided
\* by the total of the row.
build_profile_graph(p, alpha, mutation) ==
    LET n == Len(p)
        profiles == Profiles(n)
        m == Len(profiles)
        base(a, b) ==
            LET i == profiles[a][1]
                j == profiles[a][2]
                x == profiles[b][1]
                y == profiles[b][2]
            IN  IF b = a THEN WSCALE
                ELSE IF y = j /\ x \notin {i, j}
                     THEN Max(0, DeviationWeight(p[x][j] - p[i][j], alpha, mutation))
                ELSE IF x = i /\ y \notin {i, j}
                     THEN Max(0, DeviationWeight(p[y][i] - p[j][i], alpha, mutation))
                ELSE 0
        total(a) == SumSeq([b \in 1..m |-> base(a, b)])
    IN  AsList([a \in 1..m |-> AsList([b \in 1..m |-> RDiv(base(a, b) * PROB, total(a))])])

\* All the mass on the first profile.
UniformStart_Point(m) == AsList([a \in 1..m |-> IF a = 1 THEN PROB ELSE 0])

\* pi = [1.0 / m] * m
UniformStart(m) == AsList([a \in 1..m |-> RDiv(PROB, m)])

\* One pass of the loop of stationary_distribution: nxt = pi * trans,
\* divided by its sum (uniform if the sum is 0).
StationaryStep(trans, pi) ==
    LET m == Len(trans)
        raw == AsList([b \in 1..m |-> RDiv(SumSeq([a \in 1..m |-> pi[a] * trans[a][b]]), PROB)])
        sm == SumSeq(raw)
    IN  IF sm = 0 THEN UniformStart(m)
        ELSE AsList([b \in 1..m |-> RDiv(raw[b] * PROB, sm)])

\* diff = sum(abs(a - b) for a, b in zip(pi, nxt))
Diff(pi, nxt) == SumSeq([a \in 1..Len(pi) |-> Abs(pi[a] - nxt[a])])

RECURSIVE PowerIterate(_, _, _)
\* The loop of stationary_distribution from pass number iter on.
PowerIterate(trans, pi, iter) ==
    IF iter >= MAX_ITER THEN pi
    ELSE LET nxt == StationaryStep(trans, pi)
         IN  IF Diff(pi, nxt) < TOL THEN nxt ELSE PowerIterate(trans, nxt, iter + 1)

\* stationary_distribution(trans)
stationary_distribution(trans) == PowerIterate(trans, UniformStart(Len(trans)), 0)

\* The aggregation of alpharank_scores with the whole mass of a profile
\* credited to each of its two agents and no division by the sum.
AgentMass_FullCredit(n, pi_profiles) ==
    LET profiles == Profiles(n)
    IN  AsList([i \in 1..n |->
            SumSeq([a \in 1..Len(profiles) |->
                      IF i \in {profiles[a][1], profiles[a][2]} THEN pi_profiles[a] ELSE 0])])

\* The aggregation of alpharank_scores: half the mass of each profile to
\* each of its two agents (halves counted in units of 1/(2 PROB)), then the
\* division by the sum if it is positive.
AgentMass(n, pi_profiles) ==
    LET profiles == Profiles(n)
        half == AsList([i \in 1..n |->
                    SumSeq([a \in 1..Len(profiles) |->
                              IF i \in {profiles[a][1], profiles[a][2]}
                              THEN pi_profiles[a] ELSE 0])])
        sm == SumSeq(half)
    IN  IF sm > 0 THEN AsList([i \in 1..n |-> RDiv(half[i] * PROB, sm)])
        ELSE AsList([i \in 1..n |-> 0])

\* alpharank_scores(agent_ids, p, alpha, mutation): mass and pi_profiles.
alpharank_scores(n, p, alpha, mutation) ==
    LET pi_profiles == stationary_distribution(build_profile_graph(p, alpha, mutation))
    IN  [mass |-> AgentMass(n, pi_profiles), pi_profiles |-> pi_profiles]

\* main with the test for too few agents at three instead of two.
RankOutcome_GuardThree(ms, league_id, alpha, mutation) ==
    LET ld == load_league_data(ms, league_id)
        ids == SortedIds(ld.agent_ids)
    IN  IF Len(ids) < 3
        THEN [pc |-> "not_enough", league_id |-> league_id, agent_ids |-> ids]
        ELSE LET p == build_winrate_matrix(ids, ld.counts)
                 tot == Totals(build_winrate_games(ids, ld.counts),
                               build_winrate_wins(ids, ld.counts))
                 sc == alpharank_scores(Len(ids), p, alpha, mutation)
             IN  [pc |-> "ranked", league_id |-> league_id, agent_ids |-> ids,
                  p |-> p, pi |-> sc.pi_profiles, mass |-> sc.mass,
                  total_games |-> tot.total_games, total_wins |-> tot.total_wins,
                  weighted_wr |-> tot.weighted_wr]

\* main of alpharank_league.py: with fewer than two agents the report "Not
\* enough agents to rank." is written and nothing is computed; otherwise
\* the win-rate matrix, the totals of each agent, the chain and the masses.
RankOutcome(ms, league_id, alpha, mutation) ==
    LET ld == load_league_data(ms, league_id)
        ids == SortedIds(ld.agent_ids)
    IN  IF Len(ids) < 2
        THEN [pc |-> "not_enough", league_id |-> league_id, agent_ids |-> ids]
        ELSE LET p == build_winrate_matrix(ids, ld.counts)
                 tot == Totals(build_winrate_games(ids, ld.counts),
                               build_winrate_wins(ids, ld.counts))
                 sc == alpharank_scores(Len(ids), p, alpha, mutation)
             IN  [pc |-> "ranked", league_id |-> league_id, agent_ids |-> ids,
                  p |-> p, pi |-> sc.pi_profiles, mass |-> sc.mass,
                  total_games |-> tot.total_games, total_wins |-> tot.total_wins,
                  weighted_wr |-> tot.weighted_wr]

\* ------------------------------------------------------------------------
\* Observations of a game state (core/observation.py,
\* core/game_state_reconstructor.py, agents/fully_observable_agent_adapter.py)
\* ------------------------------------------------------------------------

\* The Player enum.
Players == {"Player1", "Player2", "Neutral"}

\* A hidden ship count (n_ships: Optional[float] = None). Ship counts are
\* not negative, so no count reads as None.
None == -1

\* An Optional[Transporter] is a list of at most one element: << >> is None.
NoTransporter == << >>

\* A Transporter in flight from planet src to planet dst.
NewTransporter(owner, n_ships, src, dst) ==
    [s |-> src, v |-> 1, owner |-> owner, source_index |-> src,
     destination_index |-> dst, n_ships |-> n_ships]

\* A Planet with index id.
NewPlanet(id, owner, n_ships, transporter) ==
    [owner |-> owner, n_ships |-> n_ships, position |-> id, growth_rate |-> 1,
     radius |-> 1, transporter |-> transporter, id |-> id]

\* Game states observed: planet 0 of any owner with no ships or seven, with
\* no transporter or one of either player; planet 1 of Player2 with or
\* without a transporter of Player1; at tick 0 or 3.
GameStates ==
    { [planets |-> << NewPlanet(0, o, n, t0), NewPlanet(1, "Player2", 4, t1) >>,
       game_tick |-> tick] :
        o \in Players, n \in {0, 7},
        t0 \in { NoTransporter, << NewTransporter("Player1", 3, 0, 1) >>,
                 << NewTransporter("Player2", 2, 0, 1) >> },
        t1 \in { NoTransporter, << NewTransporter("Player1", 0, 1, 0) >> },
        tick \in {0, 3} }

\* The observer sets of the runner and of the tests, and two more.
ObserverSets ==
    { {"Player1"}, {"Player2"}, {"Player1", "Player2"}, Players }

\* What sample_ships of the configured sampler can return.
ShipSamples == {10, 11}

\* What sample_transporter_ships of the configured sampler can return.
TransporterSamples == {5}

\* TransporterObservation(...) of a transporter, its ship count visible or not.
TransporterObservation(trans, visible) ==
    [s |-> trans.s, v |-> trans.v, owner |-> trans.owner,
     source_index |-> trans.source_index,
     destination_index |-> trans.destination_index,
     n_ships |-> IF visible THEN trans.n_ships ELSE None]

\* ObservePlanet with the ship count of every planet shown.
ObservePlanet_NoHiding(planet, observers, include_transporter_locations) ==
    LET seen == planet.owner \in observers
        trans == planet.transporter
        shown == /\ trans # NoTransporter
                 /\ IF seen THEN trans[1].owner \in observers
                                   \/ include_transporter_locations
                    ELSE include_transporter_locations
    IN  [owner |-> planet.owner,
         n_ships |-> planet.n_ships,
         position |-> planet.position, growth_rate |-> planet.growth_rate,
         radius |-> planet.radius,
         transporter |->
             IF shown
             THEN << TransporterObservation(trans[1], seen /\ trans[1].owner \in observers) >>
             ELSE NoTransporter,
         id |-> planet.id]

\* The body of the loop of ObservationFactory.create: the PlanetObservation
\* of one planet. A planet whose owner observes shows its ship count, and
\* its transporter if the transporter's owner observes or locations are
\* included, with the ship count only in the first case; any other planet
\* hides its ship count and shows its transporter, without ship count, if
\* locations are included.
ObservePlanet(planet, observers, include_transporter_locations) ==
    LET seen == planet.owner \in observers
        trans == planet.transporter
        shown == /\ trans # NoTransporter
                 /\ IF seen THEN trans[1].owner \in observers
                                   \/ include_transporter_locations
                    ELSE include_transporter_locations
    IN  [owner |-> planet.owner,
         n_ships |-> IF seen THEN planet.n_ships ELSE None,
         position |-> planet.position, growth_rate |-> planet.growth_rate,
         radius |-> planet.radius,
         transporter |->
             IF shown
             THEN << TransporterObservation(trans[1], seen /\ trans[1].owner \in observers) >>
             ELSE NoTransporter,
         id |-> planet.id]

\* ObservationFactory.create(game_state, observers, include_transporter_locations)
ObservationFactory_create(game_state, observers, include_transporter_locations) ==
    [observed_planets |->
         [k \in 1..Len(game_state.planets) |->
              ObservePlanet(game_state.planets[k], observers,
                            include_transporter_locations)] \o << >>,
     game_tick |-> game_state.game_tick]

\* The Transporter built from a transporter observation: its ship count if
\* visible, else the value sample_transporter_ships returned.
ReconstructTransporter(obs_trans, sampled) ==
    [s |-> obs_trans.s, v |-> obs_trans.v, owner |-> obs_trans.owner,
     source_index |-> obs_trans.source_index,
     destination_index |-> obs_trans.destination_index,
     n_ships |-> IF obs_trans.n_ships # None THEN obs_trans.n_ships ELSE sampled]

\* ReconstructPlanet with a ship count of zero taken for a hidden one
\* (n_ships or sample for n_ships if n_ships is not None else sample).
ReconstructPlanet_ZeroIsHidden(observed_planet, ships, tships) ==
    [owner |-> observed_planet.owner,
     n_ships |-> IF observed_planet.n_ships # None /\ observed_planet.n_ships # 0
                 THEN observed_planet.n_ships ELSE ships,
     position |-> observed_planet.position,
     growth_rate |-> observed_planet.growth_rate,
     radius |-> observed_planet.radius,
     transporter |->
         IF observed_planet.transporter # NoTransporter
         THEN << ReconstructTransporter(observed_planet.transporter[1], tships) >>
         ELSE NoTransporter,
     id |-> observed_planet.id]

\* The body of the loop of GameStateReconstructor.reconstruct: the Planet
\* built from one planet observation, where ships and tships are what the
\* sampler returns if it is called for this planet and for its transporter.
ReconstructPlanet(observed_planet, ships, tships) ==
    [owner |-> observed_planet.owner,
     n_ships |-> IF observed_planet.n_ships # None
                 THEN observed_planet.n_ships ELSE ships,
     position |-> observed_planet.position,
     growth_rate |-> observed_planet.growth_rate,
     radius |-> observed_planet.radius,
     transporter |->
         IF observed_planet.transporter # NoTransporter
         THEN << ReconstructTransporter(observed_planet.transporter[1], tships) >>
         ELSE NoTransporter,
     id |-> observed_planet.id]

\* The calls reconstruct makes of the sampler: the indices of the planets
\* it calls sample_ships for and of those it calls sample_transporter_ships
\* for.
SamplerCalls(observation) ==
    LET ops == observation.observed_planets
    IN  [ships |-> { k \in 1..Len(ops) : ops[k].n_ships = None },
         transporter_ships |->
             { k \in 1..Len(ops) : /\ ops[k].transporter # NoTransporter
                                   /\ ops[k].transporter[1].n_ships = None }]

\* GameStateReconstructor.reconstruct(observation) with a sampler that
\* returns ships[k] and tships[k] at its calls for planet k.
GameStateReconstructor_reconstruct(observation, ships, tships) ==
    [planets |->
         [k \in 1..Len(observation.observed_planets) |->
              ReconstructPlanet(observation.observed_planets[k], ships[k], tships[k])]
           \o << >>,
     game_tick |-> observation.game_tick]

\* FullyObservableAgentAdapter._is_fully_observable
_is_fully_observable(observation) ==
    \A k \in 1..Len(observation.observed_planets) :
        LET planet == observation.observed_planets[k]
        IN  /\ planet.n_ships # None
            /\ planet.transporter # NoTransporter
                  => planet.transporter[1].n_ships # None

\* FullyObservableAgentAdapter._observation_to_game_state: every field is
\* copied as it is.
_observation_to_game_state(observation) ==
    [planets |->
         [k \in 1..Len(observation.observed_planets) |->
              LET observed == observation.observed_planets[k]
              IN  [owner |-> observed.owner, n_ships |-> observed.n_ships,
                   position |-> observed.position,
                   growth_rate |-> observed.growth_rate,
                   radius |-> observed.radius,
                   transporter |->
                       IF observed.transporter # NoTransporter
                       THEN LET trans_obs == observed.transporter[1]
                            IN  << [s |-> trans_obs.s, v |-> trans_obs.v,
                                    owner |-> trans_obs.owner,
                                    source_index |-> trans_obs.source_index,
                                    destination_index |-> trans_obs.destination_index,
                                    n_ships |-> trans_obs.n_ships] >>
                       ELSE NoTransporter,
                   id |-> observed.id]] \o << >>,
     game_tick |-> observation.game_tick]

\* FullyObservableAgentAdapter.get_action up to the call of the wrapped
\* agent: the game state handed over and the calls made of the sampler.
AdapterOutcome(observation, ships, tships) ==
    IF _is_fully_observable(observation)
    THEN [game_state |-> _observation_to_game_state(observation),
          calls |-> [ships |-> {}, transporter_ships |-> {}]]
    ELSE [game_state |-> GameStateReconstructor_reconstruct(observation, ships, tships),
          calls |-> SamplerCalls(observation)]

\* ------------------------------------------------------------------------
\* The game runner (core/unified_game_runner.py)
\* ------------------------------------------------------------------------

\* Most ticks of a game explored (GameParams.max_ticks at most this).
MaxTicks == 2

\* Most calls of run_game on one runner explored.
MaxGames == 2

\* The maps GameStateFactory can create: states at tick 0.
RunStates ==
    { gs \in GameStates :
        /\ gs.game_tick = 0
        /\ gs.planets[1].owner = "Player1" /\ gs.planets[1].n_ships = 7
        /\ gs.planets[1].transporter \in { NoTransporter,
                                           << NewTransporter("Player1", 3, 0, 1) >> }
        /\ gs.planets[2].transporter = NoTransporter }

\* The GameParams of a runner.
RunParams ==
    { [max_ticks |-> mt, new_map_each_run |-> nm] : mt \in 0..MaxTicks, nm \in BOOLEAN }

\* ForwardModel(game_state.model_copy(deep=True), params)
ForwardModel(game_state) == [state |-> game_state, over |-> FALSE]

\* ForwardModel.is_terminal: the ticks are used up or a player is out.
is_terminal(fm, params) == fm.state.game_tick >= params.max_ticks \/ fm.over

\* ForwardModel.step(actions): one tick further; whether a player is out
\* after it is given by over.
step(fm, over) ==
    [state |-> [fm.state EXCEPT !.game_tick = @ + 1], over |-> over]

\* One call of an agent's method, or of forward_model.step (agent 0), in
\* game number n.
Call(call, agent, n, arg) == [call |-> call, agent |-> agent, game |-> n, arg |-> arg]

\* new_game: the calls it makes of the agents.
PrepareCalls(n) ==
    << Call("prepare_to_play_as", 1, n, "Player1"),
       Call("prepare_to_play_as", 2, n, "Player2") >>

\* The observations of one pass of the loop of run_game: each player's own
\* view in partially observable mode, the view of all three otherwise.
Observations(partial_observability, game_state) ==
    IF partial_observability
    THEN << ObservationFactory_create(game_state, {"Player1"}, TRUE),
            ObservationFactory_create(game_state, {"Player2"}, TRUE) >>
    ELSE << ObservationFactory_create(game_state, Players, TRUE),
            ObservationFactory_create(game_state, Players, TRUE) >>

\* One pass of the loop of run_game: the calls it makes.
TickCalls(partial_observability, game_state, n) ==
    LET obs == Observations(partial_observability, game_state)
    IN  << Call("get_action", 1, n, obs[1]),
           Call("get_action", 2, n, obs[2]),
           Call("step", 0, n, game_state.game_tick) >>

\* GameOverCalls with the second agent not notified.
GameOverCalls_FirstOnly(final_state, n) ==
    << Call("process_game_over", 1, n, final_state) >>

\* The end of run_game: the calls it makes once the loop is left.
GameOverCalls(final_state, n) ==
    << Call("process_game_over", 1, n, final_state),
       Call("process_game_over", 2, n, final_state) >>

\* ------------------------------------------------------------------------
\* State
\* ------------------------------------------------------------------------

VARIABLES
    matches,     \* the Match table, in match_id order
    ratings,     \* the committed Rating rows: league -> agent -> row or NoRating
    settings,    \* the committed League.settings: league -> settings
    applied,     \* history: league -> ids of the matches the committed ratings embody
    last,        \* history: the call that returned last
    sess,        \* per process: the open Session of a call that has not committed
    nRecompute,  \* history: rebuild calls with reset_ratings = False so far
    agents,      \* the Agent table: the agent_ids registered so far
    sched,       \* the last call of choose_next_pair and what it returned
    rank,        \* the ranking run: its inputs, its chain and its progress
    obsv,        \* the last observation made of a game state and its use
    game         \* the game runner: its forward model, its position, its calls

vars == << matches, ratings, settings, applied, last, sess, nRecompute,
           agents, sched, rank, obsv, game >>

\* What the league leaves alone: the game engine's side.
play == << obsv, game >>

\* What the operations of league_ratings.py leave alone.
others == << agents, sched, rank, obsv, game >>

NoView == << >>

Idle ==
    [pc |-> "idle", league_id |-> 0, reset |-> FALSE, order |-> "id",
     out |-> NoView, created |-> {}, before |-> NoView]

NoCall ==
    [op |-> "none", league_id |-> 0, reset |-> FALSE, order |-> "id", ret |-> 0,
     applied |-> << >>, prev_op |-> "none", prev_league |-> 0, before |-> NoView]

\* The record of a call that returned.
Returned(op, league_id, reset, order, ret, ids, before) ==
    [op |-> op, league_id |-> league_id, reset |-> reset, order |-> order,
     ret |-> ret, applied |-> ids, prev_op |-> last.op,
     prev_league |-> last.league_id, before |-> before]

\* No call of choose_next_pair yet.
NoPair == [op |-> "none", league_id |-> 0, now |-> 0, exploit |-> FALSE, ret |-> << >>]

\* No ranking run yet.
NoRank == [pc |-> "none"]

\* No observation made yet.
NoObs == [pc |-> "none"]

\* No game runner constructed.
NoGame == [pc |-> "none"]

\* ensure_league has created every league with TS_DEFAULTS; no match, no rating.
Init ==
    /\ matches = << >>
    /\ ratings = [l \in Leagues |-> EmptyRatings]
    /\ settings = [l \in Leagues |-> TS_DEFAULTS]
    /\ applied = [l \in Leagues |-> << >>]
    /\ last = NoCall
    /\ sess = [p \in Procs |-> Idle]
    /\ nRecompute = 0
    /\ agents = {}
    /\ sched = NoPair
    /\ rank = NoRank
    /\ obsv = NoObs
    /\ game = NoGame

\* A league whose agents 1 and 2 have stored ratings R1 and R2, settings s,
\* no match yet and the cursor at 0.
InitStored(R1, R2, s) ==
    /\ matches = << >>
    /\ ratings = [l \in Leagues |->
                    [a \in AgentIds |-> IF a = 1 THEN R1 ELSE IF a = 2 THEN R2
                                        ELSE NoRating]]
    /\ settings = [l \in Leagues |-> s]
    /\ applied = [l \in Leagues |-> << >>]
    /\ last = NoCall
    /\ sess = [p \in Procs |-> Idle]
    /\ nRecompute = 0
    /\ agents = {}
    /\ sched = NoPair
    /\ rank = NoRank
    /\ obsv = NoObs
    /\ game = NoGame

\* ensure_league has created two leagues, league 2 with the override
\* tau = 0; no match, no rating.
InitIso ==
    /\ matches = << >>
    /\ ratings = [l \in AllLeagues |-> EmptyRatings]
    /\ settings = [l \in AllLeagues |->
                      IF l = 2 THEN [TS_DEFAULTS EXCEPT !.tau = 0] ELSE TS_DEFAULTS]
    /\ applied = [l \in AllLeagues |-> << >>]
    /\ last = NoCall
    /\ sess = [p \in Procs |-> Idle]
    /\ nRecompute = 0
    /\ agents = {}
    /\ sched = NoPair
    /\ rank = NoRank
    /\ obsv = NoObs
    /\ game = NoGame

\* A league of ten agents with stored ratings, no match yet.
InitTopK ==
    /\ matches = << >>
    /\ \E R \in TopKRatings : ratings = [l \in Leagues |-> R]
    /\ settings = [l \in Leagues |-> TS_DEFAULTS]
    /\ applied = [l \in Leagues |-> << >>]
    /\ last = NoCall
    /\ sess = [p \in Procs |-> Idle]
    /\ nRecompute = 0
    /\ agents = TopKAgents
    /\ sched = NoPair
    /\ rank = NoRank
    /\ obsv = NoObs
    /\ game = NoGame

\* Stored ratings of any value in WinRatings, default settings.
InitWin == \E R1 \in WinRatings, R2 \in WinRatings : InitStored(R1, R2, TS_DEFAULTS)

\* Stored ratings of any value in FloorRatings, settings without the
\* dynamics term (tau = 0), so that sigma can stay at the floor.
InitFloor ==
    \E R1 \in FloorRatings, R2 \in FloorRatings :
        InitStored(R1, R2, [TS_DEFAULTS EXCEPT !.tau = 0])

\* ------------------------------------------------------------------------
\* Operations
\* ------------------------------------------------------------------------

\* store_matches and its commit: one more row, with the next match_id.
AppendMatch(row, limit) ==
    /\ Len(matches) < limit
    /\ matches' = Append(matches, [row EXCEPT !.match_id = Len(matches) + 1])
    /\ last' = Returned("append", row.league_id, FALSE, "id", 1, << >>, NoView)
    /\ UNCHANGED << ratings, settings, applied, sess, nRecompute, others >>

\* update(league): process_new_matches_and_update_ratings run to its return.
Update(league_id) ==
    \E o \in { UpdateOutcome(matches, ratings[league_id], settings[league_id], league_id) } :
        /\ ratings' = [ratings EXCEPT ![league_id] = o.ratings]
        /\ settings' = [settings EXCEPT ![league_id] = o.settings]
        /\ applied' = [applied EXCEPT ![league_id] = @ \o o.applied]
        /\ last' = Returned("update", league_id, FALSE, "id", o.ret, o.applied, NoView)
        /\ UNCHANGED << matches, sess, nRecompute, others >>

\* rebuild(league, reset, order): rebuild_ratings_from_matches run to its return.
Rebuild(league_id, reset_ratings, order) ==
    \E o \in { RebuildOutcome(matches, ratings[league_id], settings[league_id],
                              league_id, reset_ratings, order) } :
        /\ reset_ratings \/ nRecompute < MaxRecompute
        /\ ratings' = [ratings EXCEPT ![league_id] = o.ratings]
        /\ settings' = [settings EXCEPT ![league_id] = o.settings]
        /\ applied' = [applied EXCEPT ![league_id] =
                          IF reset_ratings THEN o.applied ELSE @ \o o.applied]
        /\ last' = Returned("rebuild", league_id, reset_ratings, order, o.ret,
                            o.applied, NoView)
        /\ nRecompute' = IF reset_ratings THEN nRecompute ELSE nRecompute + 1
        /\ UNCHANGED << matches, sess, others >>

Range(f) == { f[i] : i \in DOMAIN f }

\* The rows a Session INSERTs at its flush: the agents it touched that had
\* no row when it read them.
Created(view, touched) == { a \in touched : view[a] = NoRating }

Open(pc, league_id, reset, order, o, view, before) ==
    [pc |-> pc, league_id |-> league_id, reset |-> reset, order |-> order,
     out |-> o, created |-> Created(view, o.touched), before |-> before]

\* A call of update up to the end of its loop: the Session has read the
\* cursor, the new rows and the ratings and holds the new values unflushed.
\* With nothing to apply the call returns 0 at once.
UpdateBegin(p, league_id) ==
    \E o \in { UpdateOutcome(matches, ratings[league_id], settings[league_id], league_id) },
       before \in { << ratings[league_id], settings[league_id] >> } :
        /\ sess[p].pc = "idle"
        /\ IF o.ret = 0
           THEN /\ last' = Returned("update", league_id, FALSE, "id", 0, << >>, NoView)
                /\ sess' = sess
           ELSE /\ sess' = [sess EXCEPT ![p] =
                              Open("update", league_id, FALSE, "id", o,
                                   ratings[league_id], before)]
                /\ last' = last
        /\ UNCHANGED << matches, ratings, settings, applied, nRecompute, others >>

\* A call of rebuild up to the end of its loop: with reset_ratings the wipe
\* of the ratings and the cursor is committed first; then the Session reads
\* the rows and the ratings and holds the new values unflushed.
RebuildBegin(p, league_id, reset_ratings, order) ==
    \E base \in { ResetOutcome(ratings[league_id], settings[league_id], reset_ratings) },
       o \in { RebuildOutcome(matches, ratings[league_id], settings[league_id],
                              league_id, reset_ratings, order) },
       before \in { << ratings[league_id], settings[league_id] >> } :
        /\ sess[p].pc = "idle"
        /\ reset_ratings \/ nRecompute < MaxRecompute
        /\ ratings' = [ratings EXCEPT ![league_id] = base.ratings]
        /\ settings' = [settings EXCEPT ![league_id] = base.settings]
        /\ applied' = [applied EXCEPT ![league_id] = IF reset_ratings THEN << >> ELSE @]
        /\ sess' = [sess EXCEPT ![p] =
                      Open("rebuild", league_id, reset_ratings, order, o,
                           base.ratings, before)]
        /\ nRecompute' = IF reset_ratings THEN nRecompute ELSE nRecompute + 1
        /\ UNCHANGED << matches, last, others >>

\* session.flush() and session.commit() at the end of update or rebuild: the
\* rows the Session created are INSERTed (an IntegrityError when another
\* Session has committed one of them meanwhile: the call raises and nothing
\* is written), and every row the Session changed and the whole settings
\* value are written over what is stored.
Commit(p) ==
    LET c == sess[p]
        l == c.league_id
    IN  /\ c.pc \in {"update", "rebuild"}
        /\ IF \E a \in c.created : ratings[l][a] # NoRating
           THEN /\ last' = Returned("abort", l, c.reset, c.order, 0, << >>, c.before)
                /\ UNCHANGED << ratings, settings, applied >>
           ELSE /\ ratings' = [ratings EXCEPT ![l] =
                                 [a \in AgentIds |-> IF a \in c.out.touched
                                                     THEN c.out.ratings[a]
                                                     ELSE ratings[l][a]]]
                /\ settings' = [settings EXCEPT ![l] = c.out.settings]
                /\ applied' = [applied EXCEPT ![l] = @ \o c.out.applied]
                /\ last' = Returned(c.pc, l, c.reset, c.order, c.out.ret,
                                    c.out.applied, NoView)
        /\ sess' = [sess EXCEPT ![p] = Idle]
        /\ UNCHANGED << matches, nRecompute, others >>

\* A failure before the final commit (an exception in the loop, in flush or
\* in commit): the Session is closed and what it had not committed is lost.
Fail(p) ==
    LET c == sess[p]
    IN  /\ c.pc \in {"update", "rebuild"}
        /\ last' = Returned("abort", c.league_id, c.reset, c.order, 0, << >>, c.before)
        /\ sess' = [sess EXCEPT ![p] = Idle]
        /\ UNCHANGED << matches, ratings, settings, applied, nRecompute, others >>

\* register_in_db: a new Agent row with the next agent_id, and with it a
\* Rating row of league 1 at (25.0, 8.333).
register_in_db ==
    LET a == Cardinality(agents) + 1
    IN  /\ a \in AgentIds
        /\ agents' = agents \cup {a}
        /\ ratings' = [ratings EXCEPT ![1][a] = [mu |-> 25000, sigma |-> 8333]]
        /\ UNCHANGED << matches, settings, applied, last, sess, nRecompute, sched, rank, play >>

\* choose_next_pair(league_id) called when the clock reads now and the
\* exploit draw comes out as exploit.
choose_next_pair(league_id, now, exploit) ==
    \E r \in NextPairs(ratings[league_id], matches, settings[league_id],
                       league_id, now, exploit) :
        /\ sched' = [op |-> "next_pair", league_id |-> league_id, now |-> now,
                     exploit |-> exploit, ret |-> r]
        /\ UNCHANGED << matches, ratings, settings, applied, last, sess, nRecompute,
                        agents, rank, play >>

\* main of alpharank_league.py run on the league with --alpha and --mutation.
rank_main(league_id, alpha, mutation) ==
    \E o \in { RankOutcome(matches, league_id, alpha, mutation) } :
        /\ rank' = o
        /\ UNCHANGED << matches, ratings, settings, applied, last, sess, nRecompute,
                        agents, sched, play >>

\* alpharank_scores up to the start of the loop of stationary_distribution:
\* the chain is built and pi is uniform.
BuildGraph ==
    /\ rank.pc = "start"
    /\ \E trans \in { build_profile_graph(rank.p, rank.alpha, rank.mutation) } :
          rank' = [pc |-> "iterate", p |-> rank.p, alpha |-> rank.alpha,
                   mutation |-> rank.mutation, trans |-> trans,
                   pi |-> UniformStart(Len(trans)), iter |-> 0, mass |-> << >>]
    /\ UNCHANGED << matches, ratings, settings, applied, last, sess, nRecompute,
                    agents, sched, play >>

\* One pass of the loop of stationary_distribution; the loop ends when the
\* change is below the tolerance or the passes are used up.
PowerStep ==
    /\ rank.pc = "iterate"
    /\ \E nxt \in { StationaryStep(rank.trans, rank.pi) } :
          rank' = [rank EXCEPT !.pi = nxt, !.iter = @ + 1,
                               !.pc = IF Diff(rank.pi, nxt) < TOL \/ rank.iter + 1 >= MAX_ITER
                                      THEN "converged" ELSE "iterate"]
    /\ UNCHANGED << matches, ratings, settings, applied, last, sess, nRecompute,
                    agents, sched, play >>

\* The aggregation of alpharank_scores after the loop.
Aggregate ==
    /\ rank.pc = "converged"
    /\ rank' = [rank EXCEPT !.pc = "done", !.mass = AgentMass(Len(rank.p), rank.pi)]
    /\ UNCHANGED << matches, ratings, settings, applied, last, sess, nRecompute,
                    agents, sched, play >>

\* alpharank_scores is called on any of the matrices, alphas and mutations.
InitAlpha ==
    /\ matches = << >>
    /\ ratings = [l \in Leagues |-> EmptyRatings]
    /\ settings = [l \in Leagues |-> TS_DEFAULTS]
    /\ applied = [l \in Leagues |-> << >>]
    /\ last = NoCall
    /\ sess = [p \in Procs |-> Idle]
    /\ nRecompute = 0
    /\ agents = {}
    /\ sched = NoPair
    /\ obsv = NoObs
    /\ game = NoGame
    /\ \E p \in AlphaMatrices, alpha \in Alphas, mutation \in Mutations :
          rank = [pc |-> "start", p |-> p, alpha |-> alpha, mutation |-> mutation]

\* A game state is at hand; nothing else has happened.
InitObs ==
    /\ matches = << >>
    /\ ratings = [l \in Leagues |-> EmptyRatings]
    /\ settings = [l \in Leagues |-> TS_DEFAULTS]
    /\ applied = [l \in Leagues |-> << >>]
    /\ last = NoCall
    /\ sess = [p \in Procs |-> Idle]
    /\ nRecompute = 0
    /\ agents = {}
    /\ sched = NoPair
    /\ rank = NoRank
    /\ game = NoGame
    /\ \E gs \in GameStates : obsv = [pc |-> "state", game_state |-> gs]

\* What the observation layer leaves alone.
league == << matches, ratings, settings, applied, last, sess, nRecompute,
             agents, sched, rank >>

\* ObservationFactory.create is called on the game state.
Observe(observers, include_transporter_locations) ==
    /\ obsv.pc = "state"
    /\ obsv' = [pc |-> "observed", game_state |-> obsv.game_state,
                observers |-> observers,
                include_transporter_locations |-> include_transporter_locations,
                observation |->
                    ObservationFactory_create(obsv.game_state, observers,
                                              include_transporter_locations)]
    /\ UNCHANGED << league, game >>

\* GameStateReconstructor.reconstruct is called on the observation; the
\* sampler returns ships[k] or tships[k] when called for planet k.
Reconstruct(ships, tships) ==
    /\ obsv.pc = "observed"
    /\ obsv' = [pc |-> "reconstructed", game_state |-> obsv.game_state,
                observers |-> obsv.observers,
                include_transporter_locations |-> obsv.include_transporter_locations,
                observation |-> obsv.observation,
                ships |-> ships, tships |-> tships,
                result |-> GameStateReconstructor_reconstruct(obsv.observation,
                                                              ships, tships),
                calls |-> SamplerCalls(obsv.observation)]
    /\ UNCHANGED << league, game >>

\* FullyObservableAgentAdapter.get_action is called on the observation.
AdapterGetAction(ships, tships) ==
    /\ obsv.pc = "observed"
    /\ \E o \in { AdapterOutcome(obsv.observation, ships, tships) } :
          obsv' = [pc |-> "acted", game_state |-> obsv.game_state,
                   observers |-> obsv.observers,
                   include_transporter_locations |-> obsv.include_transporter_locations,
                   observation |-> obsv.observation,
                   ships |-> ships, tships |-> tships,
                   result |-> o.game_state, calls |-> o.calls]
    /\ UNCHANGED << league, game >>

\* UnifiedGameRunner(agent1, agent2, game_params, partial_observability)
\* has been constructed: a map is created and new_game has run once.
InitRun ==
    /\ matches = << >>
    /\ ratings = [l \in Leagues |-> EmptyRatings]
    /\ settings = [l \in Leagues |-> TS_DEFAULTS]
    /\ applied = [l \in Leagues |-> << >>]
    /\ last = NoCall
    /\ sess = [p \in Procs |-> Idle]
    /\ nRecompute = 0
    /\ agents = {}
    /\ sched = NoPair
    /\ rank = NoRank
    /\ obsv = NoObs
    /\ \E gs \in RunStates, params \in RunParams, partial \in BOOLEAN :
          game = [pc |-> "ready", partial_observability |-> partial,
                  game_params |-> params, game_state |-> gs,
                  forward_model |-> ForwardModel(gs),
                  calls |-> PrepareCalls(0), games |-> 0]

\* run_game up to the test of its loop: new_game creates a new map if
\* new_map_each_run is set, a new forward model, and prepares both agents.
run_game_begin ==
    /\ game.pc = "ready"
    /\ game.games < MaxGames
    /\ \E gs \in IF game.game_params.new_map_each_run THEN RunStates
                 ELSE { game.game_state } :
          game' = [game EXCEPT !.pc = "loop", !.game_state = gs,
                               !.forward_model = ForwardModel(gs),
                               !.calls = @ \o PrepareCalls(game.games + 1)]
    /\ UNCHANGED << league, obsv >>

\* One pass of the loop of run_game: the model is not terminal, both agents
\* are asked for an action on their observations, and the model is stepped.
run_game_tick ==
    /\ game.pc = "loop"
    /\ ~ is_terminal(game.forward_model, game.game_params)
    /\ \E over \in BOOLEAN :
          game' = [game EXCEPT
                     !.calls = @ \o TickCalls(game.partial_observability,
                                              game.forward_model.state, game.games + 1),
                     !.forward_model = step(game.forward_model, over)]
    /\ UNCHANGED << league, obsv >>

\* The end of run_game: the model is terminal, both agents are told that
\* the game is over, and the forward model is returned.
run_game_end ==
    /\ game.pc = "loop"
    /\ is_terminal(game.forward_model, game.game_params)
    /\ game' = [game EXCEPT
                  !.pc = "ready", !.games = @ + 1,
                  !.calls = @ \o GameOverCalls(game.forward_model.state, game.games + 1)]
    /\ UNCHANGED << league, obsv >>

\* ------------------------------------------------------------------------
\* Specifications
\* ------------------------------------------------------------------------

\* Sequential calls of update and rebuild between appends.
Next ==
    \/ \E row \in SeqInputs : AppendMatch(row, MaxSeqMatches)
    \/ \E l \in Leagues : Update(l)
    \/ \E l \in Leagues, reset_ratings \in BOOLEAN, order \in Orders :
          Rebuild(l, reset_ratings, order)

Spec == Init /\ [][Next]_vars

\* Sequential calls of update between appends, from an empty league.
NextUpdate ==
    \/ \E row \in UpdateInputs : AppendMatch(row, MaxMatches)
    \/ \E l \in Leagues : Update(l)

SpecUpdate == Init /\ [][NextUpdate]_vars

\* Two processes calling update, their Sessions overlapping, between appends.
NextConc ==
    \/ \E row \in ConcInputs : AppendMatch(row, MaxMatches)
    \/ \E p \in Procs, l \in Leagues : UpdateBegin(p, l)
    \/ \E p \in Procs : Commit(p)

SpecConc == Init /\ [][NextConc]_vars

\* One process calling update and rebuild; a call may fail before its commit.
NextFail ==
    \/ \E row \in FailInputs : AppendMatch(row, MaxMatches)
    \/ \E l \in Leagues : UpdateBegin(1, l)
    \/ \E l \in Leagues, reset_ratings \in BOOLEAN, order \in Orders :
          RebuildBegin(1, l, reset_ratings, order)
    \/ Commit(1)
    \/ Fail(1)

SpecFail == Init /\ [][NextFail]_vars

\* Update between appends, over stored ratings of any value.
NextWin ==
    \/ \E row \in WinInputs : AppendMatch(row, MaxWinMatches)
    \/ \E l \in Leagues : Update(l)

SpecWin == InitWin /\ [][NextWin]_vars

\* Update and rebuild between appends, over stored ratings at the floor.
NextFloor ==
    \/ \E row \in FloorInputs : AppendMatch(row, MaxFloorMatches)
    \/ \E l \in Leagues : Update(l)
    \/ \E l \in Leagues, reset_ratings \in BOOLEAN : Rebuild(l, reset_ratings, "id")

SpecFloor == InitFloor /\ [][NextFloor]_vars

\* The ranking and rebuild run between appends.
NextRank ==
    \/ \E row \in RankInputs : AppendMatch(row, MaxRankMatches)
    \/ \E l \in Leagues, args \in RankArgs : rank_main(l, args[1], args[2])
    \/ \E l \in Leagues : Rebuild(l, TRUE, "id")

SpecRank == Init /\ [][NextRank]_vars

\* alpharank_scores step by step on a given matrix.
NextAlpha ==
    \/ BuildGraph
    \/ PowerStep
    \/ Aggregate

SpecAlpha == InitAlpha /\ [][NextAlpha]_vars

\* Agents register, play matches among themselves, update runs, and the
\* scheduler is asked for the next pair.
NextSched ==
    \/ register_in_db
    \/ \E row \in SchedInputs :
          /\ {row.player1_id, row.player2_id} \subseteq agents
          /\ AppendMatch(row, MaxSchedMatches)
    \/ \E l \in Leagues : Update(l)
    \/ \E l \in Leagues, now \in Clock, exploit \in BOOLEAN :
          choose_next_pair(l, now, exploit)

SpecSched == Init /\ [][NextSched]_vars

\* A game state is observed, and the observation is reconstructed or handed
\* to an adapted agent.
NextObs ==
    \/ \E observers \in ObserverSets, include \in BOOLEAN : Observe(observers, include)
    \/ \E ships \in [1..2 -> ShipSamples], tships \in [1..2 -> TransporterSamples] :
          Reconstruct(ships \o << >>, tships \o << >>)
    \/ \E ships \in [1..2 -> ShipSamples], tships \in [1..2 -> TransporterSamples] :
          AdapterGetAction(ships \o << >>, tships \o << >>)

SpecObs == InitObs /\ [][NextObs]_vars

\* run_game is called on a runner, again and again (run_games).
NextRun ==
    \/ run_game_begin
    \/ run_game_tick
    \/ run_game_end

SpecRun == InitRun /\ [][NextRun]_vars

\* Matches are played in a league of ten rated agents, update runs, and the
\* scheduler is asked for the next pair.
NextTopK ==
    \/ \E row \in TopKInputs : AppendMatch(row, MaxTopKMatches)
    \/ \E l \in Leagues : Update(l)
    \/ \E l \in Leagues, exploit \in BOOLEAN : choose_next_pair(l, 8, exploit)

SpecTopK == InitTopK /\ [][NextTopK]_vars

\* ------------------------------------------------------------------------
\* Sequential calls of update and rebuild over rows whose winner may be an
\* agent that did not play.
NextCredit ==
    \/ \E row \in CreditInputs : AppendMatch(row, MaxCreditMatches)
    \/ \E l \in Leagues : Update(l)
    \/ \E l \in Leagues, reset_ratings \in BOOLEAN, order \in Orders :
          Rebuild(l, reset_ratings, order)

SpecCredit == Init /\ [][NextCredit]_vars

\* Sequential calls of update and rebuild on either of two leagues.
NextIso ==
    \/ \E row \in IsoInputs : AppendMatch(row, MaxIsoMatches)
    \/ \E l \in AllLeagues : Update(l)
    \/ \E l \in AllLeagues, reset_ratings \in BOOLEAN, order \in Orders :
          Rebuild(l, reset_ratings, order)

SpecIso == InitIso /\ [][NextIso]_vars

\* Properties
\* ------------------------------------------------------------------------

Cursor(l) == settings[l].last_processed_match_id

\* The decisive rows of league l at or below match id c, in ascending id order.
DecisiveUpTo(l, c) ==
    SelectSeq(matches, LAMBDA m : m.league_id = l /\ m.winner_id # NULL /\ m.match_id <= c)

\* The decisive rows of league l above match id c.
DecisiveAbove(l, c) ==
    SelectSeq(matches, LAMBDA m : m.league_id = l /\ m.winner_id # NULL /\ m.match_id > c)

\* C1: with only appends and sequential update calls on a league that starts
\* with cursor 0 and no ratings, the matches applied to the ratings are at
\* every moment exactly the decisive matches with id <= the cursor, each once
\* and in ascending id order, the ratings are those of that replay, and right
\* after an update returns no decisive match is left above the cursor.
C1_AppliedExactlyOnce ==
    \A l \in Leagues :
        /\ applied[l] = IdsOf(DecisiveUpTo(l, Cursor(l)))
        /\ ratings[l] = ReplayRows(EmptyRatings, DecisiveUpTo(l, Cursor(l)), settings[l])
        /\ (last.op = "update" /\ last.league_id = l) => DecisiveAbove(l, Cursor(l)) = << >>

\* An update has returned after an earlier update had applied a batch, with
\* a null-winner row in the log.
C1_Witness ==
    /\ last.op = "update" /\ last.ret >= 1
    /\ Len(applied[last.league_id]) > last.ret
    /\ \E k \in 1..Len(matches) : matches[k].winner_id = NULL

\* C2: an update that follows an update of the same league with no append in
\* between returns 0 and leaves every rating and the cursor unchanged.
C2_Resumable ==
    [][ (last.op = "update" /\ last'.op = "update" /\ last'.league_id = last.league_id)
          => (last'.ret = 0 /\ ratings' = ratings /\ settings' = settings) ]_vars

\* The second of two updates in a row has returned 0 with a null-winner row
\* above a non-zero cursor.
C2_Witness ==
    /\ last.op = "update" /\ last.prev_op = "update"
    /\ last.prev_league = last.league_id
    /\ last.ret = 0
    /\ Cursor(last.league_id) > 0
    /\ \E k \in 1..Len(matches) :
          matches[k].winner_id = NULL /\ matches[k].match_id > Cursor(last.league_id)

\* C3: whenever an update has returned, in a league fed only by appends and
\* updates from cursor 0 and no ratings, the ratings and the cursor are those
\* a rebuild with order "id" and reset produces from the same log, however
\* the log was split into batches between the updates.
C3_RebuildEqualsIncremental ==
    (last.op = "update") =>
        LET l == last.league_id
            o == RebuildOutcome(matches, ratings[l], settings[l], l, TRUE, "id")
        IN  ratings[l] = o.ratings /\ settings[l] = o.settings

\* An update has returned after an earlier one had applied a batch, and the
\* two batches were of different winners.
C3_Witness ==
    /\ last.op = "update" /\ last.ret >= 1
    /\ Len(applied[last.league_id]) > last.ret
    /\ \E i, j \in 1..Len(matches) :
          /\ matches[i].winner_id # NULL /\ matches[j].winner_id # NULL
          /\ matches[i].winner_id # matches[j].winner_id

\* mu and sigma of every agent, an agent without a row at the defaults.
MuSigma(R, s) == [a \in AgentIds |-> _get_or_create_rating(R, a, s.mu0, s.sigma0)]

\* C4: when update invocations overlap, no match is applied twice or skipped:
\* as in every serial execution, the committed ratings are those of the
\* decisive matches with id <= the committed cursor, each applied once.
CE_C4_OverlapSerializable ==
    \A l \in Leagues :
        ratings[l] = ReplayRows(EmptyRatings, DecisiveUpTo(l, Cursor(l)), settings[l])

\* C5: after a call of update or rebuild was aborted before its final commit
\* the stored ratings and settings are those committed before the call.
CE_C5_AbortLeavesPriorState ==
    (last.op = "abort") =>
        << ratings[last.league_id], settings[last.league_id] >> = last.before

\* C6: the cursor of a league never decreases, except by a rebuild with reset.
CE_C6_CursorMonotone ==
    [][ \A l \in Leagues :
          \/ (last'.op = "rebuild" /\ last'.reset /\ last'.league_id = l)
          \/ settings'[l].last_processed_match_id >= settings[l].last_processed_match_id
      ]_vars

\* The rows of ms that are not self-play.
NotSelfPlay(ms) == SelectSeq(ms, LAMBDA m : m.player1_id # m.player2_id)

\* C7: self-play rows are ignored by update and rebuild: the mu and sigma
\* either produces from the store are those it produces with the self-play
\* rows taken out of the log.
CE_C7_SelfPlayIgnored ==
    \A l \in Leagues :
        /\ MuSigma(UpdateOutcome(matches, ratings[l], settings[l], l).ratings, settings[l])
             = MuSigma(UpdateOutcome(NotSelfPlay(matches), ratings[l], settings[l], l).ratings,
                       settings[l])
        /\ \A reset_ratings \in BOOLEAN, order \in Orders :
             MuSigma(RebuildOutcome(matches, ratings[l], settings[l], l,
                                    reset_ratings, order).ratings, settings[l])
               = MuSigma(RebuildOutcome(NotSelfPlay(matches), ratings[l], settings[l], l,
                                        reset_ratings, order).ratings, settings[l])

\* The rows of ms with a winner.
WithWinner(ms) == SelectSeq(ms, LAMBDA m : m.winner_id # NULL)

\* C8: rows with a null winner are ignored input: the ratings update and
\* rebuild produce from the store, and the agent set and the win counts the
\* ranking loads, are those obtained with the null-winner rows taken out of
\* the log.
C8_NullWinnerIgnored ==
    \A l \in Leagues :
        /\ UpdateOutcome(matches, ratings[l], settings[l], l).ratings
             = UpdateOutcome(WithWinner(matches), ratings[l], settings[l], l).ratings
        /\ \A reset_ratings \in BOOLEAN, order \in Orders :
             RebuildOutcome(matches, ratings[l], settings[l], l, reset_ratings, order).ratings
               = RebuildOutcome(WithWinner(matches), ratings[l], settings[l], l,
                                reset_ratings, order).ratings
        /\ load_league_data(matches, l) = load_league_data(WithWinner(matches), l)

\* A null-winner row lies below a decisive row in the log, and the last call
\* was an update or a rebuild that applied at least one match.
C8_Witness ==
    /\ \E i, j \in 1..Len(matches) :
          i < j /\ matches[i].winner_id = NULL /\ matches[j].winner_id # NULL
    /\ last.op \in {"update", "rebuild"} /\ last.ret >= 1

\* The row of the log with match id k.
RowOf(k) == matches[k]

\* C9: after a rebuild returns, with or without reset, the ratings are those
\* of the decisive matches applied in the order the rebuild took them,
\* starting from (mu0, sigma0) for every agent.
CE_C9_RebuildFromScratch ==
    (last.op = "rebuild") =>
        ratings[last.league_id] =
            ReplayRows(EmptyRatings, [i \in 1..Len(last.applied) |-> RowOf(last.applied[i])],
                       settings[last.league_id])

\* a is not after b in the order: key ascending with NULL first, then match id.
KeyOrdered(ka, ida, kb, idb) ==
    IF ka = kb THEN ida <= idb
    ELSE ka = NULL \/ (kb # NULL /\ ka < kb)

\* The ids of the decisive rows of league l.
DecisiveIds(l) ==
    { matches[k].match_id : k \in { i \in 1..Len(matches) :
          matches[i].league_id = l /\ matches[i].winner_id # NULL } }

\* C10 (as amended): a rebuild in order "time" applies exactly the decisive
\* matches of the league, each once, sorted by start timestamp ascending,
\* null start timestamps first, ties broken by ascending match id; with reset
\* the ratings are those of that replay.
C10_TimeOrderByStart ==
    (last.op = "rebuild" /\ last.order = "time") =>
        LET ids == last.applied
            l == last.league_id
        IN  /\ Range(ids) = DecisiveIds(l)
            /\ Len(ids) = Cardinality(DecisiveIds(l))
            /\ \A i, j \in 1..Len(ids) :
                  i < j => KeyOrdered(RowOf(ids[i]).started_at, ids[i],
                                      RowOf(ids[j]).started_at, ids[j])
            /\ last.reset =>
                  ratings[l] = ReplayRows(EmptyRatings,
                                          [i \in 1..Len(ids) |-> RowOf(ids[i])], settings[l])

\* A rebuild in order "time" has applied two rows against their id order,
\* the one with the null start first.
C10_Witness ==
    /\ last.op = "rebuild" /\ last.order = "time" /\ Len(last.applied) >= 2
    /\ last.applied[1] > last.applied[2]
    /\ RowOf(last.applied[1]).started_at = NULL

\* C10 (as claimed): a rebuild in order "time" applies the decisive matches
\* sorted by finish timestamp ascending, nulls first, ties by match id.
CE_C10_TimeOrderByFinish ==
    (last.op = "rebuild" /\ last.order = "time") =>
        \A i, j \in 1..Len(last.applied) :
            i < j => KeyOrdered(RowOf(last.applied[i]).finished_at, last.applied[i],
                                RowOf(last.applied[j]).finished_at, last.applied[j])

\* C11: a call of choose_next_pair returns None exactly when fewer than two
\* agents have a Rating row in the league, and otherwise a pair of two
\* different rated agents of the league, whatever the exploit draw.
C11_NextPairDistinct ==
    [][ (sched' # sched) =>
          LET rated == Rated(ratings[sched'.league_id])
              ret == sched'.ret
          IN  /\ (ret = << >>) <=> (Cardinality(rated) < 2)
              /\ (ret # << >>) => (ret[1] # ret[2] /\ {ret[1], ret[2]} \subseteq rated)
      ]_vars

\* An exploit draw returned a pair in a league with three rated agents and
\* at least one decisive match.
C11_Witness ==
    /\ sched.op = "next_pair" /\ sched.exploit /\ sched.ret # << >>
    /\ Cardinality(Rated(ratings[sched.league_id])) = 3
    /\ \E k \in 1..Len(matches) : matches[k].winner_id # NULL

\* The mu of agent a in the view R, a missing row counting as mu0.
MuOf(R, a, s) == IF R[a] = NoRating THEN s.mu0 ELSE R[a].mu

\* C12: an update that applies exactly one match strictly increases the mu
\* of its winner and strictly decreases the mu of its loser.
CE_C12_MonotonicUpdate ==
    [][ (last'.op = "update" /\ last'.ret = 1 /\ applied' # applied) =>
          LET l == last'.league_id
              m == matches[last'.applied[1]]
              wa == IF m.winner_id = m.player1_id THEN m.player1_id ELSE m.player2_id
              la == IF m.winner_id = m.player1_id THEN m.player2_id ELSE m.player1_id
          IN  /\ ratings'[l][wa].mu > MuOf(ratings[l], wa, settings[l])
              /\ ratings'[l][la].mu < MuOf(ratings[l], la, settings[l])
      ]_vars

\* C13: every stored rating has sigma at or above the floor of 1e-3.
C13_SigmaFloor ==
    \A l \in Leagues, a \in AgentIds :
        ratings[l][a] # NoRating => ratings[l][a].sigma >= SIGMA_FLOOR

\* An update or rebuild has applied a match to a rating that sat at the
\* floor, and in the same call created the rating of agent 3.
C13_Witness ==
    /\ last.op \in {"update", "rebuild"} /\ last.ret >= 1
    /\ \E l \in Leagues :
          /\ ratings[l][1].sigma = SIGMA_FLOOR
          /\ ratings[l][3] # NoRating
          /\ \E k \in 1..Len(applied[l]) : matches[applied[l][k]].player2_id = 3

\* The decisive rows of league l between two different agents a and b, in
\* either player order.
GamesBetween(l, a, b) ==
    { k \in 1..Len(matches) :
        /\ matches[k].league_id = l /\ matches[k].winner_id # NULL
        /\ {matches[k].player1_id, matches[k].player2_id} = {a, b} }

\* The agents of league l that played a decisive row against another agent.
Participants(l) ==
    { a \in AgentIds : \E b \in AgentIds \ {a} : GamesBetween(l, a, b) # {} }

\* C14: in the matrix a ranking run builds, the entry of two different
\* agents i and j is the number of their decisive matches that i won divided
\* by the number of their decisive matches, and 0.5 if they have none.
CE_C14_WinRateIsWinsOverGames ==
    [][ (rank' # rank /\ rank'.pc = "ranked") =>
          LET l == rank'.league_id
              ids == rank'.agent_ids
          IN  \A i, j \in 1..Len(ids) :
                i # j =>
                  LET gm == GamesBetween(l, ids[i], ids[j])
                      won == { k \in gm : matches[k].winner_id = ids[i] }
                  IN  rank'.p[i][j] = IF gm = {} THEN PROB \div 2
                                      ELSE RDiv(Cardinality(won) * PROB, Cardinality(gm))
      ]_vars

\* The chain of the ranking has been built.
ChainBuilt == rank.pc \in {"iterate", "converged", "done"}

\* Every entry of the matrix off the diagonal is 0.5.
AllHalf(p) == \A i, j \in 1..Len(p) : i # j => p[i][j] = PROB \div 2

\* All the entries of the list f are equal.
AllEqual(f) == \A a, b \in 1..Len(f) : f[a] = f[b]

\* C15: on a matrix with 0.5 everywhere off the diagonal, for every alpha
\* and mutation, the profiles have equal mass at the start and after every
\* pass of the power iteration, and at the end every agent has mass 1/n (to
\* the rounding of one unit).
C15_SymmetricUniform ==
    (ChainBuilt /\ AllHalf(rank.p)) =>
        /\ AllEqual(rank.pi)
        /\ rank.pc = "done" =>
             /\ AllEqual(rank.mass)
             /\ \A i \in 1..Len(rank.mass) :
                  2 * Abs(Len(rank.p) * rank.mass[i] - PROB) <= Len(rank.p)

\* The ranking of three agents with 0.5 everywhere and a positive mutation
\* weight has finished after at least one pass.
C15_Witness ==
    /\ rank.pc = "done" /\ AllHalf(rank.p) /\ Len(rank.p) = 3
    /\ rank.mutation > 0 /\ rank.alpha > 0 /\ rank.iter >= 1

\* The matrix of three agents with p[0][1] = p[1][2] = p[2][0] = 0.9.
Cyclic == << <<5000, 9000, 1000>>, <<1000, 5000, 9000>>, <<9000, 1000, 5000>> >>

\* The profile a with each agent replaced by its successor in 0 -> 1 -> 2 -> 0.
Rot(a) ==
    LET profiles == Profiles(3)
        r(i) == (i % 3) + 1
    IN  CHOOSE b \in 1..Len(profiles) :
            profiles[b] = << r(profiles[a][1]), r(profiles[a][2]) >>

\* C16: on the cyclic matrix the transition graph is the same after the
\* rotation of the agents, and the three agents end with equal mass.
C16_CyclicSymmetry ==
    (ChainBuilt /\ rank.p = Cyclic) =>
        /\ \A a, b \in 1..Len(rank.trans) :
             rank.trans[Rot(a)][Rot(b)] = rank.trans[a][b]
        /\ rank.pc = "done" => AllEqual(rank.mass)

\* The ranking of the cyclic matrix has finished with alpha and mutation
\* positive: the chain has moves of every kind.
C16_Witness ==
    /\ rank.pc = "done" /\ rank.p = Cyclic
    /\ rank.alpha > 0 /\ rank.mutation > 1
    /\ \E a, b \in 1..Len(rank.trans) : a # b /\ rank.trans[a][b] > 0

\* C17: the profile distribution sums to 1 at the start and after every
\* pass, and the agents' masses sum to 1 at the end, to the rounding of
\* half a unit per entry.
C17_Normalized ==
    ChainBuilt =>
        /\ 2 * Abs(SumSeq(rank.pi) - PROB) <= Len(rank.pi)
        /\ rank.pc = "done" => 2 * Abs(SumSeq(rank.mass) - PROB) <= Len(rank.mass)

\* A ranking has finished on a matrix that is not symmetric, after at least
\* two passes in which the distribution moved.
C17_Witness ==
    /\ rank.pc = "done" /\ ~ AllHalf(rank.p) /\ ~ AllEqual(rank.pi)
    /\ rank.iter >= 2

\* C18: a ranking run reports "not enough agents", without a matrix, a
\* chain or masses, exactly when fewer than two agents take part in the
\* league's usable matches; and a rebuild of such a league returns the
\* number of decisive rows it replayed.
C18_TooFewAgentsReported ==
    [][ /\ (rank' # rank) =>
             /\ (rank'.pc = "not_enough")
                  <=> (Cardinality(Participants(rank'.league_id)) < 2)
             /\ (rank'.pc = "not_enough")
                  => (DOMAIN rank' = {"pc", "league_id", "agent_ids"})
        /\ (last' # last /\ last'.op = "rebuild"
              /\ Cardinality(Participants(last'.league_id)) < 2) =>
             last'.ret = Len(Decisive(LeagueRows(matches, last'.league_id)))
      ]_vars

\* The ranking reported too few agents on a league that has rows, and a
\* rebuild of that league has returned.
C18_Witness ==
    /\ rank.pc = "not_enough" /\ Len(matches) >= 1
    /\ last.op = "rebuild"
    /\ Cardinality(Participants(rank.league_id)) < 2

\* C19: a Rating row exists for an agent in a league only if the agent is
\* player1 or player2 of a decisive match of that league.
CE_C19_RatingFromParticipation ==
    \A l \in Leagues, a \in AgentIds :
        ratings[l][a] # NoRating =>
            \E k \in 1..Len(matches) :
                /\ matches[k].league_id = l /\ matches[k].winner_id # NULL
                /\ a \in {matches[k].player1_id, matches[k].player2_id}

\* C20: at a call of choose_next_pair the staleness of an agent without any
\* decisive match is at least the staleness of every agent that has one.
CE_C20_NeverPlayedMostStale ==
    [][ (sched' # sched) =>
          LET l == sched'.league_id
              stats == load_stats(ratings[l], matches, settings[l], l).stats
          IN  \A a, b \in DOMAIN stats :
                (stats[a].played = 0 /\ stats[b].played > 0) =>
                    _normalize_days(stats[a].last_played, sched'.now)
                      >= _normalize_days(stats[b].last_played, sched'.now)
      ]_vars

\* C21: the observation ObservationFactory.create returns has one planet
\* observation per planet of the state, in the state's order, and the
\* state's game tick; a planet's n_ships is the state's value when the
\* planet's owner is among the observers and None otherwise; and when the
\* observers are Player1, Player2 and Neutral no ship count of a planet or
\* of a transporter is None.
C21_ObservationVisibility ==
    (obsv.pc = "observed") =>
        LET ps == obsv.game_state.planets
            ops == obsv.observation.observed_planets
        IN  /\ Len(ops) = Len(ps)
            /\ obsv.observation.game_tick = obsv.game_state.game_tick
            /\ \A k \in 1..Len(ps) :
                  /\ ops[k].id = ps[k].id /\ ops[k].owner = ps[k].owner
                  /\ ops[k].n_ships = IF ps[k].owner \in obsv.observers
                                      THEN ps[k].n_ships ELSE None
            /\ obsv.observers = Players =>
                  \A k \in 1..Len(ops) :
                      /\ ops[k].n_ships # None
                      /\ ops[k].transporter # NoTransporter
                            => ops[k].transporter[1].n_ships # None

\* Player1 alone has observed a state at tick 3 in which it owns planet 0,
\* which has no ships and a transporter, while planet 1 is its opponent's.
C21_Witness ==
    /\ obsv.pc = "observed" /\ obsv.observers = {"Player1"}
    /\ obsv.game_state.game_tick = 3
    /\ obsv.game_state.planets[1].owner = "Player1"
    /\ obsv.game_state.planets[1].n_ships = 0
    /\ obsv.game_state.planets[1].transporter # NoTransporter
    /\ obsv.observation.observed_planets[2].n_ships = None

\* The ship counts of a list of planets (or planet observations): of each
\* planet, then of each transporter.
ShipCountsOf(planets) ==
    { planets[k].n_ships : k \in 1..Len(planets) } \cup
    { planets[k].transporter[1].n_ships :
        k \in { i \in 1..Len(planets) : planets[i].transporter # NoTransporter } }

\* C22: the state reconstruct returns (directly or through the adapter's
\* get_action) has one planet per observed planet, with the observed tick;
\* every visible ship count of a planet or a transporter is kept, every
\* hidden one is the value the sampler returned for it, and none is
\* missing; and for an observation made by Player1, Player2 and Neutral the
\* result has the planets and the tick of the observed state and the
\* sampler was not called.
C22_ReconstructionFillsHidden ==
    (obsv.pc \in {"reconstructed", "acted"}) =>
        LET ops == obsv.observation.observed_planets
            rps == obsv.result.planets
        IN  /\ Len(rps) = Len(ops)
            /\ obsv.result.game_tick = obsv.observation.game_tick
            /\ \A k \in 1..Len(ops) :
                  /\ rps[k].id = ops[k].id /\ rps[k].owner = ops[k].owner
                  /\ rps[k].n_ships = IF ops[k].n_ships # None THEN ops[k].n_ships
                                      ELSE obsv.ships[k]
                  /\ (rps[k].transporter = NoTransporter)
                        <=> (ops[k].transporter = NoTransporter)
                  /\ ops[k].transporter # NoTransporter =>
                        rps[k].transporter[1].n_ships =
                            IF ops[k].transporter[1].n_ships # None
                            THEN ops[k].transporter[1].n_ships ELSE obsv.tships[k]
            /\ None \notin ShipCountsOf(rps)
            /\ obsv.observers = Players =>
                  /\ rps = obsv.game_state.planets
                  /\ obsv.result.game_tick = obsv.game_state.game_tick
                  /\ obsv.calls.ships = {} /\ obsv.calls.transporter_ships = {}

\* An observation by Player1 alone has been reconstructed: planet 0 is its
\* own, with no ships, and planet 1 and a transporter had hidden counts.
C22_Witness ==
    /\ obsv.pc = "reconstructed" /\ obsv.observers = {"Player1"}
    /\ obsv.observation.observed_planets[1].n_ships = 0
    /\ obsv.observation.observed_planets[2].n_ships = None
    /\ obsv.calls.transporter_ships # {}
    /\ obsv.result.planets[2].n_ships = 11

\* The calls made in game number n, in order.
GameCalls(n) == SelectSeq(game.calls, LAMBDA c : c.game = n)

\* run_game number n has returned.
Returned_(n) == n >= 1 /\ n <= game.games

\* C23: in every game of run_game, in both observability modes, the calls
\* are: prepare_to_play_as on both agents; then, tick after tick, get_action
\* on agent 1, get_action on agent 2 and one step of the model; then, once
\* and only once run_game returns, process_game_over on each agent, once,
\* as the last calls; run_game has returned only on a terminal model, and
\* the state delivered is the model's final state.
C23_RunGameProtocol ==
    (game.pc # "none") =>
        /\ \A n \in 1..MaxGames :
              LET L == GameCalls(n)
                  body == IF Returned_(n) THEN Len(L) - 2 ELSE Len(L)
              IN  /\ L # << >> =>
                        /\ Len(L) >= 2
                        /\ SubSeq(L, 1, 2) = PrepareCalls(n)
                  /\ \A i \in 3..body :
                        /\ (i % 3 = 0) => (L[i].call = "get_action" /\ L[i].agent = 1)
                        /\ (i % 3 = 1) => (L[i].call = "get_action" /\ L[i].agent = 2)
                        /\ (i % 3 = 2) => (L[i].call = "step" /\ L[i].arg = (i \div 3) - 1)
                  /\ (body - 2) % 3 = 0 \/ L = << >>
                  /\ Returned_(n) =>
                        /\ body >= 2
                        /\ L[body + 1].call = "process_game_over" /\ L[body + 1].agent = 1
                        /\ L[body + 2].call = "process_game_over" /\ L[body + 2].agent = 2
                        /\ L[body + 1].arg = L[body + 2].arg
                        /\ L[body + 1].arg.game_tick = (body - 2) \div 3
        /\ (game.pc = "ready" /\ game.games >= 1) =>
              /\ is_terminal(game.forward_model, game.game_params)
              /\ game.calls[Len(game.calls)].arg = game.forward_model.state

\* A second game in partially observable mode has returned after two ticks.
C23_Witness ==
    /\ game.pc = "ready" /\ game.games = 2 /\ game.partial_observability
    /\ game.forward_model.state.game_tick = 2
    /\ Len(GameCalls(2)) = 10

\* C24: in the matrix a ranking run builds, for every two different ranked
\* agents i and j, p[i][j] + p[j][i] = 1.
CE_C24_ConstantSum ==
    [][ (rank' # rank /\ rank'.pc = "ranked") =>
          \A i, j \in 1..Len(rank'.agent_ids) :
              i # j => rank'.p[i][j] + rank'.p[j][i] = PROB
      ]_vars

\* The decisive rows of league l that agent a played against another agent.
GamesOf(l, a) == UNION { GamesBetween(l, a, b) : b \in AgentIds \ {a} }

\* C25: the totals a ranking run reports for each ranked agent are its
\* record: total_games the number of decisive matches it played against
\* another agent, total_wins the number of those it won, and
\* weighted_win_rate their ratio (0 without games).
CE_C25_TotalsAreTrueRecord ==
    [][ (rank' # rank /\ rank'.pc = "ranked") =>
          \A i \in 1..Len(rank'.agent_ids) :
              LET a == rank'.agent_ids[i]
                  played == GamesOf(rank'.league_id, a)
                  won == { k \in played : matches[k].winner_id = a }
              IN  /\ rank'.total_games[i] = Cardinality(played)
                  /\ rank'.total_wins[i] = Cardinality(won)
                  /\ rank'.weighted_wr[i] =
                        IF played = {} THEN 0
                        ELSE RDiv(Cardinality(won) * PROB, Cardinality(played))
      ]_vars

\* The move from profile a to profile b keeps the profile, or replaces its
\* row agent or its column agent by a third agent.
ValidMove(profiles, a, b) ==
    LET i == profiles[a][1]
        j == profiles[a][2]
    IN  \/ b = a
        \/ profiles[b][2] = j /\ profiles[b][1] \notin {i, j}
        \/ profiles[b][1] = i /\ profiles[b][2] \notin {i, j}

\* C26: the chain of a ranking over n agents has one state for each of the
\* n(n-1) ordered pairs of different agents; every move of positive
\* probability keeps the profile or is a row or column deviation to a third
\* agent; staying has positive probability; and the probabilities out of
\* each profile sum to 1 (to the rounding of half a unit per entry), for
\* every mutation weight, 0 included.
C26_RowStochastic ==
    ChainBuilt =>
        LET n == Len(rank.p)
            profiles == Profiles(n)
            m == Len(rank.trans)
        IN  /\ m = n * (n - 1) /\ Len(profiles) = m
            /\ Range(profiles) = { pr \in (1..n) \X (1..n) : pr[1] # pr[2] }
            /\ \A a \in 1..m :
                  /\ Len(rank.trans[a]) = m
                  /\ \A b \in 1..m :
                        /\ rank.trans[a][b] >= 0
                        /\ rank.trans[a][b] > 0 => ValidMove(profiles, a, b)
                  /\ rank.trans[a][a] > 0
                  /\ 2 * Abs(SumSeq(rank.trans[a]) - PROB) <= m

\* A chain over three agents was built with mutation 0 and a positive
\* alpha: one of its profiles has a deviation of positive probability and a
\* deviation of probability 0.
C26_Witness ==
    /\ ChainBuilt /\ Len(rank.p) = 3 /\ rank.mutation = 0 /\ rank.alpha > 0
    /\ \E a, b, c \in 1..Len(rank.trans) :
          /\ a # b /\ a # c
          /\ ValidMove(Profiles(3), a, b) /\ rank.trans[a][b] > 0
          /\ ValidMove(Profiles(3), a, c) /\ rank.trans[a][c] = 0

\* The sets the exploit draw can keep of the candidates cands: min(TOP_K,
\* number of candidates) of them, none with a lower mu than one left out.
HighestMu(R, cands) ==
    { cs \in SUBSET cands :
        /\ Cardinality(cs) = Min(TOP_K, Cardinality(cands))
        /\ \A a \in cs, b \in cands \ cs : R[a].mu >= R[b].mu }

\* C27: the pair (i, j) choose_next_pair returns is such that no rated
\* agent of the league has a higher focal priority than i, and j has the
\* highest opponent score of a candidate set that is all the rated agents
\* but i, or on an exploit draw min(TOP_K, n-1) of them with the highest mu;
\* the repeat penalty in the score counts the decisive matches between i
\* and the candidate in either player order.
C27_SelectionRule ==
    [][ (sched' # sched /\ sched'.ret # << >>) =>
          LET l == sched'.league_id
              R == ratings[l]
              rated == Rated(R)
              ld == load_stats(R, matches, settings[l], l)
              i == sched'.ret[1]
              j == sched'.ret[2]
              prio(a) == priority(ld.stats[a], ld.T, sched'.now)
              score(c) == pair_score(ld.stats[i], ld.stats[c], settings[l].beta,
                                     Cardinality(GamesBetween(l, i, c)))
          IN  /\ i \in rated
              /\ \A k \in rated : prio(k) <= prio(i)
              /\ \E cs \in IF sched'.exploit THEN HighestMu(R, rated \ {i})
                           ELSE { rated \ {i} } :
                    /\ j \in cs
                    /\ \A c \in cs : score(c) <= score(j)
      ]_vars

\* An exploit draw in the league of ten has returned an opponent that is
\* not the one a draw over all candidates returns, after the pair had met
\* in both player orders.
C27_Witness ==
    /\ sched.op = "next_pair" /\ sched.exploit /\ sched.ret # << >>
    /\ Cardinality(Rated(ratings[sched.league_id])) = 10
    /\ sched.ret \notin NextPairs(ratings[sched.league_id], matches,
                                  settings[sched.league_id], sched.league_id,
                                  sched.now, FALSE)
    /\ \E a, b \in 1..Len(matches) :
          /\ matches[a].player1_id = matches[b].player2_id
          /\ matches[a].player2_id = matches[b].player1_id

\* C28: when a rebuild returns, in either order and with either value of
\* reset, the cursor of the league is at or above the id of every match the
\* rebuild applied; and an update of the league that follows the rebuild
\* with no append in between returns 0 and changes no rating.
CE_C28_RebuildCoversApplied ==
    [][ /\ (last'.op = "rebuild") =>
              \A k \in 1..Len(last'.applied) :
                  settings'[last'.league_id].last_processed_match_id >= last'.applied[k]
        /\ (last.op = "rebuild" /\ last'.op = "update"
              /\ last'.league_id = last.league_id) =>
              (last'.ret = 0 /\ ratings' = ratings)
      ]_vars

\* C29: for a match applied by update or rebuild, only the ratings of its
\* player1 and player2 change, the rating whose mu is raised is that of the
\* agent recorded in winner_id, and a match whose winner_id is neither
\* player raises the mu of neither. Stated on the calls that apply exactly
\* one match, where the ratings before and after the match are the ratings
\* before and after the call.
CE_C29_WinnerIsCredited ==
    [][ (last'.op \in {"update", "rebuild"} /\ Len(last'.applied) = 1) =>
          LET l == last'.league_id
              m == matches[last'.applied[1]]
              R == IF last'.op = "rebuild" /\ last'.reset
                   THEN EmptyRatings ELSE ratings[l]
              s == settings[l]
              r1 == _get_or_create_rating(R, m.player1_id, s.mu0, s.sigma0)
              r2 == _get_or_create_rating(R, m.player2_id, s.mu0, s.sigma0)
              after == ratings'[l]
          IN  /\ \A a \in AgentIds \ {m.player1_id, m.player2_id} : after[a] = R[a]
              /\ (m.winner_id = m.player1_id) =>
                    (after[m.player1_id].mu > r1.mu /\ after[m.player2_id].mu < r2.mu)
              /\ (m.winner_id = m.player2_id) =>
                    (after[m.player2_id].mu > r2.mu /\ after[m.player1_id].mu < r1.mu)
              /\ (m.winner_id \notin {m.player1_id, m.player2_id}) =>
                    (after[m.player1_id].mu <= r1.mu /\ after[m.player2_id].mu <= r2.mu)
      ]_vars

\* C30: leagues are isolated. A call update(L) or rebuild(L, reset, order)
\* leaves the ratings and the settings (cursor included) of every other
\* league as they were, and what it returns and stores for league L is what
\* the same call returns and stores on the log with the rows of the other
\* leagues removed.
C30_LeaguesIsolated ==
    [][ (last'.op \in {"update", "rebuild"}) =>
          LET l == last'.league_id
              own == SelectSeq(matches, LAMBDA m : m.league_id = l)
              o == IF last'.op = "update"
                   THEN UpdateOutcome(own, ratings[l], settings[l], l)
                   ELSE RebuildOutcome(own, ratings[l], settings[l], l,
                                       last'.reset, last'.order)
          IN  /\ \A k \in DOMAIN ratings \ {l} :
                    ratings'[k] = ratings[k] /\ settings'[k] = settings[k]
              /\ ratings'[l] = o.ratings
              /\ settings'[l] = o.settings
              /\ last'.ret = o.ret
              /\ last'.applied = o.applied
      ]_vars

\* A call on league 1 has applied a match while league 2 holds a rating of
\* the same agent and a match the call must not read.
C30_Witness ==
    /\ last.op \in {"update", "rebuild"}
    /\ last.league_id = 1
    /\ last.ret > 0
    /\ ratings[1][1] # NoRating
    /\ 2 \in DOMAIN ratings
    /\ ratings[2][1] # NoRating
    /\ \E i \in 1..Len(matches) : matches[i].league_id = 2

====
